---- MODULE Spec2Model ----
(***************************************************************************)
(* Model of the Vulkan interception layer of ThatSkyLoader                 *)
(* (src/src/layer.cpp): the dispatch registry, the interception shim and   *)
(* the overlay render pipeline.                                            *)
(***************************************************************************)
EXTENDS Integers, Sequences, FiniteSets, TLC

(***************************************************************************)
(* Bounds of the model.                                                    *)
(***************************************************************************)
\* longest create-info pNext chain the host passes
MaxChain == 2
\* cap on DeviceData::queues, which the code only ever appends to
MaxQueueList == 2
\* largest swapchainCount of one present call
MaxSurfaces == 2
\* number of files in the mods directory
MaxFiles == 2

(***************************************************************************)
(* Handles, keys and result codes.                                         *)
(***************************************************************************)
NULL == "NULL"
VK_SUCCESS == "VK_SUCCESS"
VK_ERROR_INITIALIZATION_FAILED == "VK_ERROR_INITIALIZATION_FAILED"
\* result codes of the next layer other than VK_SUCCESS
NextErrors == {"VK_ERROR_DEVICE_LOST"}
NextResults == {VK_SUCCESS} \cup NextErrors
\* value of `last.ret` when the call never returned
NO_RETURN == "NO_RETURN"

InstHandles == {"i1", "i2"}
DevHandles == {"d1", "d2"}
\* the next layers a link record can name
NextLayers == {"nextA", "nextB"}

\* queue families and queue indices a device create info can request
FamilyIndexes == {0, 1}
QueueIndexes == {0}

\* handle of the queue (family f, index j) of device d, as vkGetDeviceQueue returns it
QueueHandle(d, f, j) == d \o ".q" \o ToString(f) \o "." \o ToString(j)
QueueOwner == [q \in {QueueHandle(d, f, j) : d \in DevHandles, f \in FamilyIndexes, j \in QueueIndexes} |->
                 CHOOSE d \in DevHandles : \E f \in FamilyIndexes, j \in QueueIndexes : q = QueueHandle(d, f, j)]
AllQueues == DOMAIN QueueOwner

\* variant for C7: a key read from the queue handle itself
GetKey_ownHandle(h) == "K" \o h
\* GetKey: the first pointer-sized field of a dispatchable object, the loader's
\* dispatch pointer; a queue carries the dispatch pointer of its device
GetKey(h) == IF h \in AllQueues THEN "K" \o QueueOwner[h] ELSE "K" \o h

(***************************************************************************)
(* Function pointers and dispatch tables.                                  *)
(***************************************************************************)
NullFn == [impl |-> "null", name |-> "null"]
\* &ModLoader_<func>
OwnFn(func) == [impl |-> "ModLoader", name |-> "vk" \o func]

\* names the host asks the resolvers for
InstanceLevelNames == {"vkGetInstanceProcAddr", "vkCreateInstance", "vkDestroyInstance",
                       "vkCreateDevice"}
DeviceLevelNames == {"vkGetDeviceProcAddr", "vkDestroyDevice", "vkQueuePresentKHR",
                     "vkCreateSwapchainKHR", "vkGetDeviceQueue"}
\* names that differ from an intercepted name in case, by a prefix or by a suffix,
\* and a name no layer knows
NearMissNames == {"vkcreatedevice", "VKQUEUEPRESENTKHR", "vkCreateDevic", "vkQueuePresentKHR2",
                  "CreateDevice", "vkNoSuchFunction"}
ProcNames == InstanceLevelNames \cup DeviceLevelNames \cup NearMissNames

\* the next layer's vkGetInstanceProcAddr: it resolves every real command
NextGetInstanceProcAddr(n, pName) ==
    IF pName \in InstanceLevelNames \cup DeviceLevelNames THEN [impl |-> n, name |-> pName] ELSE NullFn
\* the next layer's vkGetDeviceProcAddr: it resolves device-level commands
NextGetDeviceProcAddr(n, pName) ==
    IF pName \in DeviceLevelNames THEN [impl |-> n, name |-> pName] ELSE NullFn

\* a value-initialised VkLayerInstanceDispatchTable / VkLayerDispatchTable
NullInstanceTable == [GetInstanceProcAddr |-> NullFn, DestroyInstance |-> NullFn]
NullDeviceTable == [GetDeviceProcAddr |-> NullFn, DestroyDevice |-> NullFn,
                    QueuePresentKHR |-> NullFn, CreateSwapchainKHR |-> NullFn,
                    GetDeviceQueue |-> NullFn]
\* a value-initialised DeviceData
NullDeviceData == [vtable |-> NullDeviceTable, device |-> NULL, set_device_loader_data |-> "null",
                   graphic_queue |-> NULL, queues |-> <<>>]
\* a value-initialised QueueData
NullQueueData == [device |-> NULL, queue |-> NULL]

\* std::map::operator[]: inserts a value-initialised element when the key is absent
MapIndex(map, k, dflt) == IF k \in DOMAIN map THEN map ELSE map @@ (k :> dflt)
\* std::map::erase(key)
MapErase(map, k) == [x \in DOMAIN map \ {k} |-> map[x]]

(***************************************************************************)
(* Create-info chains.                                                     *)
(***************************************************************************)
LinkI == [sType |-> "LOADER_INSTANCE_CREATE_INFO", function |-> "LAYER_LINK_INFO"]
LinkD == [sType |-> "LOADER_DEVICE_CREATE_INFO", function |-> "LAYER_LINK_INFO"]
CallbackD == [sType |-> "LOADER_DEVICE_CREATE_INFO", function |-> "LOADER_DATA_CALLBACK"]
ChainRecords == {LinkI, LinkD, CallbackD}
Chains == UNION {[1..n -> ChainRecords] : n \in 0..MaxChain}

\* variant for C5: a walk that tests the structure type only
RECURSIVE ChainWalk_anyFunction(_, _, _, _)
ChainWalk_anyFunction(chain, i, sType, func) ==
    IF i > Len(chain) THEN 0
    ELSE IF chain[i].sType = sType THEN i
    ELSE ChainWalk_anyFunction(chain, i + 1, sType, func)

\* the walk of the pNext chain: index of the first record of structure type
\* sType whose function is func, 0 when the walk reaches the end of the chain
RECURSIVE ChainWalk(_, _, _, _)
ChainWalk(chain, i, sType, func) ==
    IF i > Len(chain) THEN 0
    ELSE IF chain[i].sType = sType /\ chain[i].function = func THEN i
    ELSE ChainWalk(chain, i + 1, sType, func)

get_device_chain_info(chain, func) == ChainWalk(chain, 1, "LOADER_DEVICE_CREATE_INFO", func)

\* VkDeviceCreateInfo::pQueueCreateInfos
QueueCreateInfos == {
    << [queueFamilyIndex |-> 0, queueCount |-> 1] >>,
    << [queueFamilyIndex |-> 0, queueCount |-> 1], [queueFamilyIndex |-> 1, queueCount |-> 1] >>,
    << [queueFamilyIndex |-> 1, queueCount |-> 1], [queueFamilyIndex |-> 0, queueCount |-> 1] >> }

(***************************************************************************)
(* State.                                                                  *)
(***************************************************************************)
VARIABLES
    \* the registry maps (layer.cpp:82-85)
    instance_dispatch, device_dispatch, g_device_dispatch, g_queue_data,
    \* the overlay globals (layer.cpp:160-185)
    g_Hwnd, g_QueueFamilies, g_QueueFamily, g_Device, g_ImageExtent, g_MinImageCount,
    g_RenderPass, g_DescriptorPool, g_Frames, g_FrameSemaphores,
    \* whether a live Vulkan handle held by the overlay globals was overwritten
    \* without having been destroyed
    leaked,
    \* the host's view: which handles the next layer has handed out and the
    \* host has not destroyed since
    status,
    \* whether layer::setup has been called, and the state of the process
    setup_called, proc,
    \* the entry point the host called last with what it was passed (info:
    \* the pNext chain of a create, the present info of a present; qci: the
    \* pQueueCreateInfos of a device create) and its
    \* outcome, and the calls that entry point made into the next layer, the
    \* loader and the driver
    last, calls

VARIABLES
    \* the module manager: the registry ModLoader::mods (mod_loader.cpp:18)
    mods,
    \* the module files in the mods directory
    disk,
    \* the operation of the module manager called last with its outcome, and
    \* the calls it made: into the system loader and into the modules' hooks
    modLast, modCalls

VARIABLES
    \* the host threads: the entry point each one is in and where in it
    threads,
    \* the thread that holds the global mutex (layer.cpp:37), NULL if none
    global_lock

VARIABLES
    \* Menu::bShowMenu: whether the menu is shown
    bShowMenu

registryVars == << instance_dispatch, device_dispatch, g_device_dispatch, g_queue_data >>
overlayVars == << g_Device, g_ImageExtent, g_MinImageCount, g_RenderPass, g_DescriptorPool,
                  g_Frames, g_FrameSemaphores, leaked >>
setupVars == << g_Hwnd, g_QueueFamilies, g_QueueFamily, setup_called >>
layerVars == << instance_dispatch, device_dispatch, g_device_dispatch, g_queue_data,
                g_Hwnd, g_QueueFamilies, g_QueueFamily, g_Device, g_ImageExtent, g_MinImageCount,
                g_RenderPass, g_DescriptorPool, g_Frames, g_FrameSemaphores, leaked,
                status, setup_called, proc, last, calls >>
modVars == << mods, disk, modLast, modCalls >>
threadVars == << threads, global_lock >>
menuVars == << bShowMenu >>
vars == << layerVars, modVars, threadVars, menuVars >>

\* number of elements of g_Frames and of g_FrameSemaphores
FrameCapacity == 8
Slots == 0..(FrameCapacity - 1)

ZeroExtent == [width |-> 0, height |-> 0]
\* a zero-initialised ImGui_ImplVulkanH_Frame, with the state of its fence, of
\* its command buffer and the extent its framebuffer was created with
NullFrame == [Backbuffer |-> NULL, CommandPool |-> NULL, CommandBuffer |-> NULL, Fence |-> NULL,
              BackbufferView |-> NULL, Framebuffer |-> NULL,
              fenceState |-> "none", cbState |-> "none", fbExtent |-> ZeroExtent]
NullFrameSemaphores == [ImageAcquiredSemaphore |-> NULL, RenderCompleteSemaphore |-> NULL]

\* An underlying call that fails: during the processing of surface number
\* `surface` of a present call, the call `step` (for slot `slot`, where the
\* call is made per slot) returns an error.
NoFault == [surface |-> 0, step |-> "none", slot |-> 0]
Fault(surface, step, slot) == [surface |-> surface, step |-> step, slot |-> slot]
FaultResult == "VK_ERROR_DEVICE_LOST"

\* what `last` holds between two calls of the host
Idle == [op |-> "idle", handle |-> NULL, name |-> "-", ret |-> "-", nextRet |-> "-",
         link |-> FALSE, callback |-> FALSE, hadTable |-> FALSE, fn |-> NullFn,
         info |-> << >>, results |-> << >>, fault |-> NoFault, ub |-> "crash", qci |-> << >>]
Outcome(op, handle, name, ret, nextRet, link, callback, hadTable, fn) ==
    [op |-> op, handle |-> handle, name |-> name, ret |-> ret, nextRet |-> nextRet,
     link |-> link, callback |-> callback, hadTable |-> hadTable, fn |-> fn,
     info |-> << >>, results |-> << >>, fault |-> NoFault, ub |-> "crash", qci |-> << >>]

\* a call out of the layer: into the next layer, the loader or the driver
Call(fn, impl, obj, arg) == [fn |-> fn, impl |-> impl, obj |-> obj, arg |-> arg]

\* the layer after its globals are initialised
InitLayer ==
    /\ instance_dispatch = << >>
    /\ device_dispatch = << >>
    /\ g_device_dispatch = << >>
    /\ g_queue_data = << >>
    /\ g_Hwnd = NULL
    /\ g_QueueFamilies = << >>
    /\ g_QueueFamily = -1
    /\ g_Device = NULL
    /\ g_ImageExtent = ZeroExtent
    /\ g_MinImageCount = 1
    /\ g_RenderPass = NULL
    /\ g_DescriptorPool = NULL
    /\ g_Frames = [i \in Slots |-> NullFrame]
    /\ g_FrameSemaphores = [i \in Slots |-> NullFrameSemaphores]
    /\ leaked = FALSE
    /\ status = [h \in InstHandles \cup DevHandles |-> "never"]
    /\ setup_called = FALSE
    /\ proc = "running"
    /\ last = Idle
    /\ calls = << >>

\* the host may call an entry point: the process runs and no call is in progress
Callable == proc = "running" /\ last.op = "idle"

(***************************************************************************)
(* Instance entry points.                                                  *)
(***************************************************************************)
\* ModLoader_CreateInstance. chain is pCreateInfo->pNext, n the next layer the
\* link record names, nextRet the result of the next layer's vkCreateInstance
\* and h the value of *pInstance after it: the new handle on success, whatever
\* the host left there on failure.
ModLoader_CreateInstance(chain, n, nextRet, h) ==
    LET link == ChainWalk(chain, 1, "LOADER_INSTANCE_CREATE_INFO", "LAYER_LINK_INFO")
        dispatchTable == [GetInstanceProcAddr |-> NextGetInstanceProcAddr(n, "vkGetInstanceProcAddr"),
                          DestroyInstance |-> NextGetInstanceProcAddr(n, "vkDestroyInstance")]
        made == << Call("vkCreateInstance", n, NULL, "-"),
                   Call("vkGetInstanceProcAddr", n, h, "vkGetInstanceProcAddr"),
                   Call("vkGetInstanceProcAddr", n, h, "vkDestroyInstance") >>
    IN
    /\ Callable
    /\ IF nextRet = VK_SUCCESS THEN h \in InstHandles /\ status[h] # "live"
                               ELSE h \in {NULL} \cup InstHandles
    /\ IF link = 0
       THEN /\ last' = [Outcome("CreateInstance", NULL, "-", VK_ERROR_INITIALIZATION_FAILED, "-",
                                FALSE, FALSE, FALSE, NullFn) EXCEPT !.info = chain]
            /\ calls' = << >>
            /\ UNCHANGED << registryVars, status, proc >>
       ELSE /\ calls' = made
            /\ status' = IF nextRet = VK_SUCCESS THEN [status EXCEPT ![h] = "live"] ELSE status
            /\ IF h = NULL
               \* GetKey(*pInstance) reads through a null handle
               THEN /\ proc' = "crashed"
                    /\ last' = [Outcome("CreateInstance", h, "-", NO_RETURN, nextRet,
                                        TRUE, FALSE, FALSE, NullFn) EXCEPT !.info = chain]
                    /\ UNCHANGED registryVars
               ELSE /\ instance_dispatch' =
                          [k \in DOMAIN instance_dispatch \cup {GetKey(h)} |->
                              IF k = GetKey(h) THEN dispatchTable ELSE instance_dispatch[k]]
                    /\ last' = [Outcome("CreateInstance", h, "-", VK_SUCCESS, nextRet,
                                        TRUE, FALSE, GetKey(h) \in DOMAIN instance_dispatch, NullFn)
                                   EXCEPT !.info = chain]
                    /\ UNCHANGED << device_dispatch, g_device_dispatch, g_queue_data, proc >>
    /\ UNCHANGED << overlayVars, setupVars >>
    /\ UNCHANGED << modVars, threadVars, menuVars >>

\* ModLoader_DestroyInstance
ModLoader_DestroyInstance(instance) ==
    /\ Callable
    /\ status[instance] # "never"
    /\ instance_dispatch' = MapErase(instance_dispatch, GetKey(instance))
    /\ status' = [status EXCEPT ![instance] = "destroyed"]
    /\ last' = Outcome("DestroyInstance", instance, "-", "-", "-", FALSE, FALSE,
                       GetKey(instance) \in DOMAIN instance_dispatch, NullFn)
    /\ calls' = << >>
    /\ UNCHANGED << device_dispatch, g_device_dispatch, g_queue_data, overlayVars, setupVars, proc >>
    /\ UNCHANGED << modVars, threadVars, menuVars >>

(***************************************************************************)
(* Device entry points.                                                    *)
(***************************************************************************)
\* the queues DeviceMapQueues enumerates, in its order: for every element i of
\* pQueueCreateInfos, for every j below its queueCount
RECURSIVE EnumerateQueues(_, _, _, _)
EnumerateQueues(device, qci, i, j) ==
    IF i > Len(qci) THEN << >>
    ELSE IF j >= qci[i].queueCount THEN EnumerateQueues(device, qci, i + 1, 0)
    ELSE << QueueHandle(device, qci[i].queueFamilyIndex, j) >> \o EnumerateQueues(device, qci, i, j + 1)

\* new_queue_data applied to the element `key` of g_device_dispatch: the pair
\* of the new g_queue_data and the new DeviceData
new_queue_data(gq, data, key, queue) ==
    [gq |-> [q \in DOMAIN gq \cup {queue} |->
                IF q = queue THEN [device |-> key, queue |-> queue] ELSE gq[q]],
     data |-> [data EXCEPT !.graphic_queue = queue]]

\* DeviceMapQueues over the queues qs, from position i on
RECURSIVE DeviceMapQueues(_, _, _, _, _)
DeviceMapQueues(gq, data, key, qs, i) ==
    IF i > Len(qs) THEN [gq |-> gq, data |-> data]
    ELSE LET r == new_queue_data(gq, data, key, qs[i])
         IN DeviceMapQueues(r.gq, [r.data EXCEPT !.queues = Append(@, qs[i])], key, qs, i + 1)

\* a DeviceMapQueues that binds only the first queue to the loader
DeviceMapQueuesCalls_firstOnly(impl, device, qs) ==
    [k \in 1..(IF Len(qs) = 0 THEN 0 ELSE Len(qs) + 1) |->
        IF k = 2 THEN Call("pfnSetDeviceLoaderData", "loader", device, qs[1])
                 ELSE Call("vkGetDeviceQueue", impl, device, qs[IF k = 1 THEN 1 ELSE k - 1])]

\* the calls DeviceMapQueues makes: vkGetDeviceQueue of the next layer and the
\* loader's pfnSetDeviceLoaderData, per queue
DeviceMapQueuesCalls(impl, device, qs) ==
    [k \in 1..(2 * Len(qs)) |->
        IF k % 2 = 1 THEN Call("vkGetDeviceQueue", impl, device, qs[(k + 1) \div 2])
                     ELSE Call("pfnSetDeviceLoaderData", "loader", device, qs[k \div 2])]

\* ModLoader_CreateDevice. chain is pCreateInfo->pNext, qci pQueueCreateInfos,
\* n the next layer the link record names, nextRet the result of the next
\* layer's vkCreateDevice and h the value of *pDevice after it.
ModLoader_CreateDevice(chain, qci, n, nextRet, h) ==
    LET link == ChainWalk(chain, 1, "LOADER_DEVICE_CREATE_INFO", "LAYER_LINK_INFO")
        dispatchTable == [GetDeviceProcAddr |-> NextGetDeviceProcAddr(n, "vkGetDeviceProcAddr"),
                          DestroyDevice |-> NextGetDeviceProcAddr(n, "vkDestroyDevice"),
                          QueuePresentKHR |-> NextGetDeviceProcAddr(n, "vkQueuePresentKHR"),
                          CreateSwapchainKHR |-> NextGetDeviceProcAddr(n, "vkCreateSwapchainKHR"),
                          GetDeviceQueue |-> NextGetDeviceProcAddr(n, "vkGetDeviceQueue")]
        made == << Call("vkCreateDevice", n, NULL, "-"),
                   Call("vkGetDeviceProcAddr", n, h, "vkGetDeviceProcAddr"),
                   Call("vkGetDeviceProcAddr", n, h, "vkDestroyDevice"),
                   Call("vkGetDeviceProcAddr", n, h, "vkQueuePresentKHR"),
                   Call("vkGetDeviceProcAddr", n, h, "vkCreateSwapchainKHR"),
                   Call("vkGetDeviceProcAddr", n, h, "vkGetDeviceQueue") >>
        key == GetKey(h)
        \* GetDeviceData(*pDevice)->vtable = dispatchTable; ->device = *pDevice
        gdd == [MapIndex(g_device_dispatch, key, NullDeviceData) EXCEPT
                   ![key].vtable = dispatchTable, ![key].device = h]
        load_data_info == get_device_chain_info(chain, "LOADER_DATA_CALLBACK")
        qs == EnumerateQueues(h, qci, 1, 0)
        mapped == DeviceMapQueues(g_queue_data,
                                  [gdd[key] EXCEPT !.set_device_loader_data = "pfnSetDeviceLoaderData"],
                                  key, qs, 1)
    IN
    /\ Callable
    /\ IF nextRet = VK_SUCCESS THEN h \in DevHandles /\ status[h] # "live"
                               ELSE h \in {NULL} \cup DevHandles
    /\ IF link = 0
       THEN /\ last' = [Outcome("CreateDevice", NULL, "-", VK_ERROR_INITIALIZATION_FAILED, "-",
                                FALSE, load_data_info # 0, FALSE, NullFn) EXCEPT !.info = chain, !.qci = qci]
            /\ calls' = << >>
            /\ UNCHANGED << registryVars, status, proc >>
       ELSE /\ status' = IF nextRet = VK_SUCCESS THEN [status EXCEPT ![h] = "live"] ELSE status
            /\ IF h = NULL
               \* GetDeviceData(*pDevice): GetKey reads through a null handle
               THEN /\ proc' = "crashed"
                    /\ calls' = made
                    /\ last' = [Outcome("CreateDevice", h, "-", NO_RETURN, nextRet,
                                        TRUE, load_data_info # 0, FALSE, NullFn) EXCEPT !.info = chain, !.qci = qci]
                    /\ UNCHANGED registryVars
               ELSE IF load_data_info = 0
               \* load_data_info->u.pfnSetDeviceLoaderData reads through a null pointer
               THEN /\ proc' = "crashed"
                    /\ calls' = made
                    /\ g_device_dispatch' = gdd
                    /\ last' = [Outcome("CreateDevice", h, "-", NO_RETURN, nextRet,
                                        TRUE, FALSE, key \in DOMAIN device_dispatch, NullFn)
                                   EXCEPT !.info = chain, !.qci = qci]
                    /\ UNCHANGED << instance_dispatch, device_dispatch, g_queue_data >>
               ELSE /\ Len(gdd[key].queues) + Len(qs) <= MaxQueueList
                    /\ calls' = made \o DeviceMapQueuesCalls(n, h, qs)
                    /\ g_device_dispatch' = [gdd EXCEPT ![key] = mapped.data]
                    /\ g_queue_data' = mapped.gq
                    /\ device_dispatch' =
                          [k \in DOMAIN device_dispatch \cup {key} |->
                              IF k = key THEN dispatchTable ELSE device_dispatch[k]]
                    /\ last' = [Outcome("CreateDevice", h, "-", VK_SUCCESS, nextRet,
                                        TRUE, TRUE, key \in DOMAIN device_dispatch, NullFn)
                                   EXCEPT !.info = chain, !.qci = qci]
                    /\ UNCHANGED << instance_dispatch, proc >>
    /\ UNCHANGED << overlayVars, setupVars >>
    /\ UNCHANGED << modVars, threadVars, menuVars >>

\* ModLoader_DestroyDevice
ModLoader_DestroyDevice(device) ==
    /\ Callable
    /\ status[device] # "never"
    /\ device_dispatch' = MapErase(device_dispatch, GetKey(device))
    /\ status' = [status EXCEPT ![device] = "destroyed"]
    /\ last' = Outcome("DestroyDevice", device, "-", "-", "-", FALSE, FALSE,
                       GetKey(device) \in DOMAIN device_dispatch, NullFn)
    /\ calls' = << >>
    /\ UNCHANGED << instance_dispatch, g_device_dispatch, g_queue_data, overlayVars, setupVars, proc >>
    /\ UNCHANGED << modVars, threadVars, menuVars >>

(***************************************************************************)
(* Proc-address resolution.                                                *)
(***************************************************************************)
\* variant for C3: strcmp replaced by a comparison that ignores case
GETPROCADDR_nocase(pName, func) ==
    \/ pName = "vk" \o func
    \/ pName = "vkcreatedevice" /\ func = "CreateDevice"
    \/ pName = "VKQUEUEPRESENTKHR" /\ func = "QueuePresentKHR"
\* the GETPROCADDR macro's test: strcmp(pName, "vk" #func) == 0
GETPROCADDR(pName, func) == pName = "vk" \o func

\* the GETPROCADDR lines of a resolver, in order: the entry point of the first
\* line that matches, NullFn when control falls through all of them
RECURSIVE Intercept(_, _, _)
Intercept(pName, funcs, i) ==
    IF i > Len(funcs) THEN NullFn
    ELSE IF GETPROCADDR(pName, funcs[i]) THEN OwnFn(funcs[i])
    ELSE Intercept(pName, funcs, i + 1)

\* the functions ModLoader_GetDeviceProcAddr tests for
DeviceProcAddrFuncs == << "GetDeviceProcAddr", "CreateDevice", "DestroyDevice",
                          "QueuePresentKHR", "CreateSwapchainKHR" >>
\* the functions ModLoader_GetInstanceProcAddr tests for
InstanceProcAddrFuncs == << "GetInstanceProcAddr", "CreateInstance", "DestroyInstance",
                            "GetDeviceProcAddr", "CreateDevice", "DestroyDevice" >>

\* what the fall-through of ModLoader_GetDeviceProcAddr returns: the answer
\* of the resolver stored in the table, for a name
ForwardDeviceProcAddr(table, pName) == NextGetDeviceProcAddr(table.GetDeviceProcAddr.impl, pName)
\* what the fall-through of ModLoader_GetInstanceProcAddr returns
ForwardInstanceProcAddr(table, pName) == NextGetInstanceProcAddr(table.GetInstanceProcAddr.impl, pName)

\* ModLoader_GetDeviceProcAddr
ModLoader_GetDeviceProcAddr(device, pName) ==
    LET own == Intercept(pName, DeviceProcAddrFuncs, 1)
        key == GetKey(device)
        dd == MapIndex(device_dispatch, key, NullDeviceTable)
        had == key \in DOMAIN device_dispatch /\ device_dispatch[key] # NullDeviceTable
    IN
    /\ Callable
    /\ status[device] # "never"
    /\ IF own # NullFn
       THEN /\ last' = Outcome("GetDeviceProcAddr", device, pName, "-", "-", FALSE, FALSE, had, own)
            /\ calls' = << >>
            /\ UNCHANGED << device_dispatch, proc >>
       ELSE /\ device_dispatch' = dd
            /\ IF dd[key].GetDeviceProcAddr = NullFn
               \* call through a null function pointer
               THEN /\ proc' = "crashed"
                    /\ calls' = << >>
                    /\ last' = Outcome("GetDeviceProcAddr", device, pName, NO_RETURN, "-",
                                       FALSE, FALSE, had, NullFn)
               ELSE /\ calls' = << Call("vkGetDeviceProcAddr", dd[key].GetDeviceProcAddr.impl, device, pName) >>
                    /\ last' = Outcome("GetDeviceProcAddr", device, pName, "-", "-", FALSE, FALSE, had,
                                       ForwardDeviceProcAddr(dd[key], pName))
                    /\ UNCHANGED proc
    /\ UNCHANGED << instance_dispatch, g_device_dispatch, g_queue_data, overlayVars, setupVars, status >>
    /\ UNCHANGED << modVars, threadVars, menuVars >>

\* ModLoader_GetInstanceProcAddr; the host may pass a null instance
ModLoader_GetInstanceProcAddr(instance, pName) ==
    LET own == Intercept(pName, InstanceProcAddrFuncs, 1)
        key == GetKey(instance)
        id == MapIndex(instance_dispatch, key, NullInstanceTable)
        had == instance # NULL /\ key \in DOMAIN instance_dispatch
                               /\ instance_dispatch[key] # NullInstanceTable
    IN
    /\ Callable
    /\ instance # NULL => status[instance] # "never"
    /\ IF own # NullFn
       THEN /\ last' = Outcome("GetInstanceProcAddr", instance, pName, "-", "-", FALSE, FALSE, had, own)
            /\ calls' = << >>
            /\ UNCHANGED << instance_dispatch, proc >>
       ELSE IF instance = NULL
       \* GetKey(instance) reads through a null handle
       THEN /\ proc' = "crashed"
            /\ calls' = << >>
            /\ last' = Outcome("GetInstanceProcAddr", instance, pName, NO_RETURN, "-",
                               FALSE, FALSE, had, NullFn)
            /\ UNCHANGED instance_dispatch
       ELSE /\ instance_dispatch' = id
            /\ IF id[key].GetInstanceProcAddr = NullFn
               THEN /\ proc' = "crashed"
                    /\ calls' = << >>
                    /\ last' = Outcome("GetInstanceProcAddr", instance, pName, NO_RETURN, "-",
                                       FALSE, FALSE, had, NullFn)
               ELSE /\ calls' = << Call("vkGetInstanceProcAddr", id[key].GetInstanceProcAddr.impl, instance, pName) >>
                    /\ last' = Outcome("GetInstanceProcAddr", instance, pName, "-", "-", FALSE, FALSE, had,
                                       ForwardInstanceProcAddr(id[key], pName))
                    /\ UNCHANGED proc
    /\ UNCHANGED << device_dispatch, g_device_dispatch, g_queue_data, overlayVars, setupVars, status >>
    /\ UNCHANGED << modVars, threadVars, menuVars >>

\* the host takes the result of the call it made
HostReturn ==
    /\ proc = "running"
    /\ last.op # "idle"
    /\ last' = Idle
    /\ calls' = << >>
    /\ UNCHANGED << registryVars, overlayVars, setupVars, status, proc >>
    /\ UNCHANGED << modVars, threadVars, menuVars >>

(***************************************************************************)
(* Overlay render targets.                                                 *)
(***************************************************************************)
\* the extents a swapchain create info carries
Extents == {ZeroExtent, [width |-> 800, height |-> 600], [width |-> 1024, height |-> 768]}
\* the extent CreateRenderTarget gives the framebuffers: the last known
\* extent, 3840 and 2160 standing in for a zero width and a zero height
FramebufferExtent(extent) ==
    [width |-> IF extent.width > 0 THEN extent.width ELSE 3840,
     height |-> IF extent.height > 0 THEN extent.height ELSE 2160]
\* the render area RenderImGui_Vulkan begins the render pass with
RenderAreaExtent(extent) ==
    IF extent.width = 0 \/ extent.height = 0 THEN [width |-> 3840, height |-> 2160] ELSE extent

\* the handles the driver hands out, one per kind of object and frame slot
HandleName == [kind \in {"pool", "cmd", "fence", "acquired", "complete", "view", "fb", "image"} |->
                 [i \in Slots |-> kind \o ToString(i)]]

\* the calls of CreateRenderTarget that can fail, per slot and once
SlotCreateSteps == << "vkCreateCommandPool", "vkAllocateCommandBuffers", "vkCreateFence",
                      "vkCreateSemaphore.ImageAcquired", "vkCreateSemaphore.RenderComplete" >>
StepIndex(step) == CHOOSE k \in 1..Len(SlotCreateSteps) : SlotCreateSteps[k] = step
\* position of a call in the order CreateRenderTarget makes its calls, for a
\* swapchain of n (at most FrameCapacity) images
StepPos(step, slot, n) ==
    CASE step = "vkGetSwapchainImagesKHR.count" -> 1
      [] step = "vkGetSwapchainImagesKHR.images" -> 2
      [] step \in {SlotCreateSteps[k] : k \in 1..Len(SlotCreateSteps)} ->
             2 + slot * Len(SlotCreateSteps) + StepIndex(step)
      [] step = "vkCreateRenderPass" -> 3 + n * Len(SlotCreateSteps)
      [] step = "vkCreateImageView" -> 3 + n * Len(SlotCreateSteps) + (slot + 1)
      [] step = "vkCreateFramebuffer" -> 3 + n * Len(SlotCreateSteps) + n + (slot + 1)
      [] step = "vkCreateDescriptorPool" -> 4 + n * Len(SlotCreateSteps) + 2 * n
      [] OTHER -> 0
\* a position after every call
NeverFails == StepPos("vkCreateDescriptorPool", 0, FrameCapacity) + 1

\* CreateRenderTarget(device, swapchain) on the overlay state o, for a
\* swapchain of imageCount images, the call at position failAt failing
\* (NeverFails: none does). A call that fails returns from the function; a
\* call that succeeds stores the new handle over whatever the slot held.
CreateRenderTarget(o, imageCount, extent, failAt) ==
    LET uImageCount == IF imageCount > FrameCapacity THEN FrameCapacity ELSE imageCount
        n == uImageCount
        done(step, slot) == StepPos(step, slot, n) < failAt
        \* the loop body for slot i is entered
        entered(i) == i < n /\ StepPos("vkCreateCommandPool", i, n) <= failAt
        inRange(i) == i < n
        rpStep == o.g_RenderPass = NULL
        \* the render pass block is passed without an early return
        rpPassed == (~rpStep /\ StepPos("vkCreateRenderPass", 0, n) <= failAt)
                    \/ (rpStep /\ done("vkCreateRenderPass", 0))
        viewDone(i) == inRange(i) /\ rpPassed /\ done("vkCreateImageView", i)
        fbDone(i) == inRange(i) /\ rpPassed /\ done("vkCreateFramebuffer", i)
        poolReached == rpPassed /\ StepPos("vkCreateDescriptorPool", 0, n) <= failAt
        newFrame(i) ==
            LET f == o.g_Frames[i] IN
            [Backbuffer |-> IF entered(i) THEN HandleName["image"][i] ELSE f.Backbuffer,
             CommandPool |-> IF inRange(i) /\ done("vkCreateCommandPool", i)
                             THEN HandleName["pool"][i] ELSE f.CommandPool,
             CommandBuffer |-> IF inRange(i) /\ done("vkAllocateCommandBuffers", i)
                               THEN HandleName["cmd"][i] ELSE f.CommandBuffer,
             Fence |-> IF inRange(i) /\ done("vkCreateFence", i)
                       THEN HandleName["fence"][i] ELSE f.Fence,
             BackbufferView |-> IF viewDone(i) THEN HandleName["view"][i] ELSE f.BackbufferView,
             Framebuffer |-> IF fbDone(i) THEN HandleName["fb"][i] ELSE f.Framebuffer,
             \* VK_FENCE_CREATE_SIGNALED_BIT
             fenceState |-> IF inRange(i) /\ done("vkCreateFence", i) THEN "signaled" ELSE f.fenceState,
             cbState |-> IF inRange(i) /\ done("vkAllocateCommandBuffers", i) THEN "initial" ELSE f.cbState,
             fbExtent |-> IF fbDone(i) THEN FramebufferExtent(extent) ELSE f.fbExtent]
        newSem(i) ==
            LET m == o.g_FrameSemaphores[i] IN
            [ImageAcquiredSemaphore |-> IF inRange(i) /\ done("vkCreateSemaphore.ImageAcquired", i)
                                        THEN HandleName["acquired"][i] ELSE m.ImageAcquiredSemaphore,
             RenderCompleteSemaphore |-> IF inRange(i) /\ done("vkCreateSemaphore.RenderComplete", i)
                                         THEN HandleName["complete"][i] ELSE m.RenderCompleteSemaphore]
        frames == [i \in Slots |-> newFrame(i)]
        sems == [i \in Slots |-> newSem(i)]
        overwritten ==
            \E i \in Slots :
                \/ o.g_Frames[i].CommandPool # NULL /\ inRange(i) /\ done("vkCreateCommandPool", i)
                \/ o.g_Frames[i].CommandBuffer # NULL /\ inRange(i) /\ done("vkAllocateCommandBuffers", i)
                \/ o.g_Frames[i].Fence # NULL /\ inRange(i) /\ done("vkCreateFence", i)
                \/ o.g_FrameSemaphores[i].ImageAcquiredSemaphore # NULL
                      /\ inRange(i) /\ done("vkCreateSemaphore.ImageAcquired", i)
                \/ o.g_FrameSemaphores[i].RenderCompleteSemaphore # NULL
                      /\ inRange(i) /\ done("vkCreateSemaphore.RenderComplete", i)
                \/ o.g_Frames[i].BackbufferView # NULL /\ viewDone(i)
                \/ o.g_Frames[i].Framebuffer # NULL /\ fbDone(i)
    IN
    IF failAt <= 2
    THEN o
    ELSE [o EXCEPT !.g_MinImageCount = uImageCount,
                   !.g_Frames = frames,
                   !.g_FrameSemaphores = sems,
                   !.g_RenderPass = IF rpStep /\ done("vkCreateRenderPass", 0) THEN "renderpass" ELSE @,
                   !.g_DescriptorPool = IF o.g_DescriptorPool = NULL /\ poolReached
                                           /\ done("vkCreateDescriptorPool", 0)
                                        THEN "descriptorpool" ELSE @,
                   !.leaked = @ \/ overwritten]

\* variant for C28: the teardown takes the descriptor pool along
CleanupRenderTarget_withPool(o) ==
    IF o.g_Device = NULL
    THEN o
    ELSE [o EXCEPT !.g_Frames =
                       [i \in Slots |->
                           LET f == o.g_Frames[i]
                               freed == f.CommandBuffer # NULL /\ f.CommandPool # NULL
                           IN [Backbuffer |-> NULL,
                               CommandPool |-> NULL,
                               CommandBuffer |-> IF freed THEN NULL ELSE f.CommandBuffer,
                               Fence |-> NULL,
                               BackbufferView |-> NULL,
                               Framebuffer |-> NULL,
                               fenceState |-> "none",
                               cbState |-> IF freed THEN "none" ELSE f.cbState,
                               fbExtent |-> ZeroExtent]],
                   !.g_FrameSemaphores = [i \in Slots |-> NullFrameSemaphores],
                   !.g_RenderPass = NULL,
                   !.g_DescriptorPool = NULL]
\* variant for C8: a swapchain creation that tears nothing down
CleanupRenderTarget_none(o) == o
\* CleanupRenderTarget on the overlay state o
CleanupRenderTarget(o) ==
    IF o.g_Device = NULL
    THEN o
    ELSE [o EXCEPT !.g_Frames =
                       [i \in Slots |->
                           LET f == o.g_Frames[i]
                               freed == f.CommandBuffer # NULL /\ f.CommandPool # NULL
                           IN [Backbuffer |-> NULL,
                               CommandPool |-> NULL,
                               CommandBuffer |-> IF freed THEN NULL ELSE f.CommandBuffer,
                               Fence |-> NULL,
                               BackbufferView |-> NULL,
                               Framebuffer |-> NULL,
                               fenceState |-> "none",
                               cbState |-> IF freed THEN "none" ELSE f.cbState,
                               fbExtent |-> ZeroExtent]],
                   !.g_FrameSemaphores = [i \in Slots |-> NullFrameSemaphores],
                   !.g_RenderPass = NULL]

\* the overlay globals as one record, and back
Overlay ==
    [g_Device |-> g_Device, g_ImageExtent |-> g_ImageExtent, g_MinImageCount |-> g_MinImageCount,
     g_RenderPass |-> g_RenderPass, g_DescriptorPool |-> g_DescriptorPool,
     g_Frames |-> g_Frames, g_FrameSemaphores |-> g_FrameSemaphores, leaked |-> leaked]
SetOverlay(o) ==
    /\ g_Device' = o.g_Device
    /\ g_ImageExtent' = o.g_ImageExtent
    /\ g_MinImageCount' = o.g_MinImageCount
    /\ g_RenderPass' = o.g_RenderPass
    /\ g_DescriptorPool' = o.g_DescriptorPool
    /\ g_Frames' = o.g_Frames
    /\ g_FrameSemaphores' = o.g_FrameSemaphores
    /\ leaked' = o.leaked

(***************************************************************************)
(* The module manager: ModLoader (mod_loader.cpp).                         *)
(***************************************************************************)
\* the module files of the mods directory
ModPaths == {"mods/m" \o ToString(k) \o ".dll" : k \in 1..MaxFiles}
\* An exported hook of a module file: "absent" (GetProcAddress returns NULL),
\* or what a call of it does: "ok" returns, "std" throws an exception derived
\* from std::exception, "other" throws an exception that is not.
Throws == {"std", "other"}
\* A module file: whether it exists, whether LoadLibraryA accepts it, and its
\* five exports.
ModuleFile(loads, start, onEnable, onDisable, getInfo, render) ==
    [exists |-> TRUE, loads |-> loads, start |-> start, onEnable |-> onEnable,
     onDisable |-> onDisable, getInfo |-> getInfo, render |-> render]
\* no file at a path
NoFile == [ModuleFile(FALSE, "absent", "absent", "absent", "absent", "absent") EXCEPT !.exists = FALSE]
ModuleFiles == {
    \* a file that is not a loadable library
    ModuleFile(FALSE, "absent", "absent", "absent", "absent", "absent"),
    \* a module with every hook
    ModuleFile(TRUE, "ok", "ok", "ok", "ok", "ok"),
    \* a library without any of the exports
    ModuleFile(TRUE, "absent", "absent", "absent", "absent", "absent"),
    \* onEnable only; GetModInfo and Render throw
    ModuleFile(TRUE, "absent", "ok", "absent", "std", "std"),
    \* onDisable only; Render throws something that is no std::exception
    ModuleFile(TRUE, "ok", "absent", "ok", "ok", "other"),
    \* Start throws
    ModuleFile(TRUE, "other", "ok", "ok", "ok", "ok"),
    \* onEnable and onDisable throw
    ModuleFile(TRUE, "ok", "std", "std", "ok", "ok"),
    \* onEnable and onDisable throw something that is no std::exception
    ModuleFile(TRUE, "absent", "other", "other", "absent", "ok") }
Disks == [ModPaths -> ModuleFiles \cup {NoFile}]

\* the HMODULE LoadLibraryA returns for a path, and the path
\* GetModuleFileNameA returns for it
LibHandle(path) == "h:" \o path
LibPath == [h \in {LibHandle(p) : p \in ModPaths} |-> CHOOSE p \in ModPaths : h = LibHandle(p)]
\* the name the GetModInfo of the module file at a path writes
ModName(path) == "name of " \o path

\* ModItem(hModule): a record as the registry constructs it. enableInvoked is
\* history: whether onEnable was invoked since the record was created or its
\* flag last became false.
ModItem(hModule) ==
    [hModule |-> hModule, start |-> "absent", onDisable |-> "absent", onEnable |-> "absent",
     getInfo |-> "absent", render |-> "absent", info |-> [name |-> ""], enabled |-> FALSE,
     enableInvoked |-> FALSE]

\* a call out of the module manager: into the system loader or a module's hook
MEv(fn, mod) == [fn |-> fn, mod |-> mod]
\* The state of one run of an operation of the module manager: the registry,
\* the calls made so far, the value to return, whether an exception has left
\* the operation, and the counts of LoadMods.
ModRun(ms) == [mods |-> ms, trace |-> << >>, ret |-> "-", escaped |-> FALSE,
               loadedCount |-> 0, failedCount |-> 0]
\* what modLast holds: the operation, its index argument, what it returned
\* (with the counts LoadMods logs), whether an exception left it, the
\* enabled flag of the record at the index before it, and the same of the
\* operation called before it when that was a DisableMod
NoOp == [op |-> "idle", index |-> -1, wasEnabled |-> "-"]
ModOutcome(op, index, run, wasEnabled, prev) ==
    [op |-> op, index |-> index, ret |-> run.ret, escaped |-> run.escaped,
     loadedCount |-> run.loadedCount, failedCount |-> run.failedCount, wasEnabled |-> wasEnabled,
     prev |-> prev]
ModIdle == ModOutcome("idle", -1, ModRun(<< >>), "-", NoOp)

ModInit(d) ==
    /\ mods = << >>
    /\ disk = d
    /\ modLast = ModIdle
    /\ modCalls = << >>

\* ModLoader::LoadModFromFile(filePath)
LoadModFromFile(run, filePath) ==
    LET file == disk[filePath]
        hModule == LibHandle(filePath)
        item == [ModItem(hModule) EXCEPT
                    !.start = file.start, !.onDisable = file.onDisable, !.onEnable = file.onEnable,
                    !.getInfo = file.getInfo, !.render = file.render,
                    \* an exception of getInfo is caught and leaves info as constructed
                    !.info.name = IF file.getInfo = "ok" THEN ModName(filePath) ELSE ""]
        made == << MEv("LoadLibraryA", filePath) >>
                \o (IF file.getInfo # "absent" THEN << MEv("GetModInfo", hModule) >> ELSE << >>)
                \o (IF file.start # "absent" THEN << MEv("Start", hModule) >> ELSE << >>)
    IN
    IF file = NoFile THEN [run EXCEPT !.ret = FALSE]
    ELSE IF ~file.loads
    THEN [run EXCEPT !.trace = Append(@, MEv("LoadLibraryA", filePath)), !.ret = FALSE]
    ELSE [run EXCEPT !.mods = Append(@, item),
                     !.trace = @ \o made,
                     \* an exception of start, of any type, is caught
                     !.ret = file.start \notin Throws]

\* ModLoader::UnloadAllMods, from record i on
RECURSIVE UnloadLoop(_, _)
UnloadLoop(run, i) ==
    IF i > Len(run.mods) THEN run
    ELSE LET m == run.mods[i]
             disables == m.enabled /\ m.onDisable # "absent"
             disabled == IF disables THEN [run EXCEPT !.trace = Append(@, MEv("onDisable", m.hModule))]
                                     ELSE run
         IN IF disables /\ m.onDisable = "other"
            \* neither handler catches it: the loop and mods.clear() are left out
            THEN [disabled EXCEPT !.escaped = TRUE]
            ELSE IF disables /\ m.onDisable = "std"
            \* caught in the loop body, after which FreeLibrary is left out
            THEN UnloadLoop(disabled, i + 1)
            ELSE UnloadLoop([disabled EXCEPT !.trace = Append(@, MEv("FreeLibrary", m.hModule))], i + 1)
UnloadAllMods(run) ==
    LET r == UnloadLoop(run, 1)
    IN IF r.escaped THEN r
       ELSE [r EXCEPT !.mods = << >>, !.trace = Append(@, MEv("mods.clear", "-"))]

\* variant for C15: the loop ends at the first file that fails to load
RECURSIVE LoadEntries_stopAtFailure(_, _, _)
LoadEntries_stopAtFailure(run, entries, k) ==
    IF k > Len(entries) THEN run
    ELSE LET r == LoadModFromFile(run, entries[k])
         IN IF r.ret THEN LoadEntries_stopAtFailure([r EXCEPT !.loadedCount = @ + 1], entries, k + 1)
                     ELSE [r EXCEPT !.failedCount = @ + 1]
\* the loop of LoadMods over the directory entries, from entry k on
RECURSIVE LoadEntries(_, _, _)
LoadEntries(run, entries, k) ==
    IF k > Len(entries) THEN run
    ELSE LET r == LoadModFromFile(run, entries[k])
         IN LoadEntries([r EXCEPT !.loadedCount = IF r.ret THEN @ + 1 ELSE @,
                                  !.failedCount = IF r.ret THEN @ ELSE @ + 1],
                        entries, k + 1)
\* ModLoader::LoadMods over the entries of the mods directory in the order
\* the directory iterator yields them; dirOk: EnsureModsDirectoryExists
LoadModsRun(ms, entries, dirOk) ==
    IF ~dirOk THEN ModRun(ms)
    ELSE LET unloaded == IF ms # << >> THEN UnloadAllMods(ModRun(ms)) ELSE ModRun(ms)
         IN IF unloaded.escaped THEN unloaded
            ELSE [LoadEntries(unloaded, entries, 1) EXCEPT !.ret = "-"]

\* the orders in which the directory iterator can yield the files present
DirectoryOrders ==
    LET present == {p \in ModPaths : disk[p] # NoFile}
    IN {o \in UNION {[1..n -> present] : n \in 0..MaxFiles} :
           /\ Len(o) = Cardinality(present)
           /\ \A j, k \in 1..Len(o) : j # k => o[j] # o[k]}

\* the operation of the module manager ends: it leaves the registry and the
\* history of the run
ModDone(op, index, run, wasEnabled) ==
    /\ mods' = run.mods
    /\ modCalls' = run.trace
    /\ modLast' = ModOutcome(op, index, run, wasEnabled,
                              IF modLast.op = "DisableMod"
                              THEN [op |-> modLast.op, index |-> modLast.index,
                                    wasEnabled |-> modLast.wasEnabled]
                              ELSE NoOp)
    /\ UNCHANGED << disk, layerVars, threadVars, menuVars >>

LoadMods(entries, dirOk) ==
    /\ entries \in DirectoryOrders
    \* a mods directory that cannot be had holds no files
    /\ dirOk \/ entries = << >>
    /\ ModDone("LoadMods", -1, LoadModsRun(mods, entries, dirOk), "-")

\* the bounds check every operation with an index starts with
ValidIndex(ms, index) == index >= 0 /\ index < Len(ms)
\* the enabled flag of the record at an index, "-" if there is none
EnabledAt(ms, index) == IF ValidIndex(ms, index) THEN ms[index + 1].enabled ELSE "-"

\* variant for C16: a record without onEnable hook is not marked enabled
EnableMod_hookOnly(run, index) ==
    IF ~ValidIndex(run.mods, index) THEN run
    ELSE LET m == run.mods[index + 1]
             invoked == [run EXCEPT !.trace = Append(@, MEv("onEnable", m.hModule)),
                                    !.mods[index + 1].enableInvoked = TRUE]
         IN CASE m.onEnable = "absent" -> run
              [] m.onEnable = "ok" -> [invoked EXCEPT !.mods[index + 1].enabled = TRUE]
              [] m.onEnable = "std" -> invoked
              [] m.onEnable = "other" -> [invoked EXCEPT !.escaped = TRUE]
\* variant for C33: an EnableMod that leaves an enabled record alone
EnableMod_onceOnly(run, index) ==
    IF ~ValidIndex(run.mods, index) THEN run
    ELSE LET m == run.mods[index + 1]
             invoked == [run EXCEPT !.trace = Append(@, MEv("onEnable", m.hModule)),
                                    !.mods[index + 1].enableInvoked = TRUE]
         IN CASE m.enabled -> run
              [] ~m.enabled /\ m.onEnable = "absent" -> [run EXCEPT !.mods[index + 1].enabled = TRUE]
              [] ~m.enabled /\ m.onEnable = "ok" -> [invoked EXCEPT !.mods[index + 1].enabled = TRUE]
              [] ~m.enabled /\ m.onEnable = "std" -> invoked
              [] ~m.enabled /\ m.onEnable = "other" -> [invoked EXCEPT !.escaped = TRUE]
\* ModLoader::EnableMod(index)
EnableMod(run, index) ==
    IF ~ValidIndex(run.mods, index) THEN run
    ELSE LET m == run.mods[index + 1]
             invoked == [run EXCEPT !.trace = Append(@, MEv("onEnable", m.hModule)),
                                    !.mods[index + 1].enableInvoked = TRUE]
         IN CASE m.onEnable = "absent" -> [run EXCEPT !.mods[index + 1].enabled = TRUE]
              [] m.onEnable = "ok" -> [invoked EXCEPT !.mods[index + 1].enabled = TRUE]
              \* caught and logged: the assignment after the call is left out
              [] m.onEnable = "std" -> invoked
              [] m.onEnable = "other" -> [invoked EXCEPT !.escaped = TRUE]

\* ModLoader::DisableMod(index)
DisableMod(run, index) ==
    IF ~ValidIndex(run.mods, index) THEN run
    ELSE LET m == run.mods[index + 1]
             invoked == [run EXCEPT !.trace = Append(@, MEv("onDisable", m.hModule))]
         IN CASE m.onDisable = "absent" -> [run EXCEPT !.mods[index + 1].enabled = FALSE,
                                                        !.mods[index + 1].enableInvoked = FALSE]
              [] m.onDisable = "ok" -> [invoked EXCEPT !.mods[index + 1].enabled = FALSE,
                                                       !.mods[index + 1].enableInvoked = FALSE]
              [] m.onDisable = "std" -> invoked
              [] m.onDisable = "other" -> [invoked EXCEPT !.escaped = TRUE]

\* variant for C18: the menu leaves it at the flag the checkbox wrote
Checkbox_flagOnly(run, i) ==
    LET flag == ~run.mods[i + 1].enabled
    IN [run EXCEPT !.mods[i + 1].enabled = flag,
                   !.mods[i + 1].enableInvoked = IF flag THEN @ ELSE FALSE]
\* The checkbox of a module in Menu::SMLMainMenu, clicked: ImGui::Checkbox
\* inverts the flag through the reference GetModEnabled(i) returns, then the
\* menu calls EnableMod(i) or DisableMod(i) by the new value.
Checkbox(run, i) ==
    LET flag == ~run.mods[i + 1].enabled
        written == [run EXCEPT !.mods[i + 1].enabled = flag,
                               !.mods[i + 1].enableInvoked = IF flag THEN @ ELSE FALSE]
    IN IF flag THEN EnableMod(written, i) ELSE DisableMod(written, i)

\* variant for C21: an index past the end is taken for the last record
Render_clamped(run, index) ==
    IF index < 0 \/ Len(run.mods) = 0 THEN run
    ELSE LET m == run.mods[IF index < Len(run.mods) THEN index + 1 ELSE Len(run.mods)]
             invoked == [run EXCEPT !.trace = Append(@, MEv("Render", m.hModule))]
         IN IF m.enabled /\ m.render # "absent"
            THEN (IF m.render = "other" THEN [invoked EXCEPT !.escaped = TRUE] ELSE invoked)
            ELSE run
\* ModLoader::Render(index)
Render(run, index) ==
    IF ~ValidIndex(run.mods, index) THEN run
    ELSE LET m == run.mods[index + 1]
             invoked == [run EXCEPT !.trace = Append(@, MEv("Render", m.hModule))]
         IN IF m.enabled /\ m.render # "absent"
            THEN (IF m.render = "other" THEN [invoked EXCEPT !.escaped = TRUE] ELSE invoked)
            ELSE run

\* ModLoader::RenderAll, from index i on
RECURSIVE RenderAll(_, _)
RenderAll(run, i) ==
    IF run.escaped \/ i >= Len(run.mods) THEN run
    ELSE RenderAll(Render(run, i), i + 1)

\* variant for C17: the path is read after the record was erased
ReloadMod_pathAfterErase(run, index, pathOk) ==
    IF ~ValidIndex(run.mods, index) THEN [run EXCEPT !.ret = FALSE]
    ELSE LET m == run.mods[index + 1]
             asked == [run EXCEPT !.trace = Append(@, MEv("GetModuleFileNameA", m.hModule))]
             path == LibPath[(IF index + 2 <= Len(run.mods) THEN run.mods[index + 2] ELSE m).hModule]
             disables == m.enabled /\ m.onDisable # "absent"
             disabled == IF disables THEN [asked EXCEPT !.trace = Append(@, MEv("onDisable", m.hModule))]
                                     ELSE asked
             erased == [disabled EXCEPT
                           !.trace = Append(@, MEv("FreeLibrary", m.hModule)),
                           !.mods = SubSeq(@, 1, index) \o SubSeq(@, index + 2, Len(@))]
         IN IF ~pathOk THEN [asked EXCEPT !.ret = FALSE]
            ELSE IF disables /\ m.onDisable = "std" THEN [disabled EXCEPT !.ret = FALSE]
            ELSE IF disables /\ m.onDisable = "other" THEN [disabled EXCEPT !.escaped = TRUE]
            ELSE LoadModFromFile(erased, path)
\* variant for C34: a ReloadMod that puts the new record where the old one was
ReloadMod_inPlace(run, index, pathOk) ==
    IF ~ValidIndex(run.mods, index) THEN [run EXCEPT !.ret = FALSE]
    ELSE LET m == run.mods[index + 1]
             asked == [run EXCEPT !.trace = Append(@, MEv("GetModuleFileNameA", m.hModule))]
             disables == m.enabled /\ m.onDisable # "absent"
             disabled == IF disables THEN [asked EXCEPT !.trace = Append(@, MEv("onDisable", m.hModule))]
                                     ELSE asked
             erased == [disabled EXCEPT
                           !.trace = Append(@, MEv("FreeLibrary", m.hModule)),
                           !.mods = SubSeq(@, 1, index) \o SubSeq(@, index + 2, Len(@))]
             loaded == LoadModFromFile(erased, LibPath[m.hModule])
             n == Len(loaded.mods)
         IN IF ~pathOk THEN [asked EXCEPT !.ret = FALSE]
            ELSE IF disables /\ m.onDisable = "std" THEN [disabled EXCEPT !.ret = FALSE]
            ELSE IF disables /\ m.onDisable = "other" THEN [disabled EXCEPT !.escaped = TRUE]
            ELSE IF n = Len(erased.mods) THEN loaded
            ELSE [loaded EXCEPT !.mods = SubSeq(@, 1, index) \o << @[n] >> \o SubSeq(@, index + 1, n - 1)]
\* ModLoader::ReloadMod(index); pathOk: GetModuleFileNameA succeeds
ReloadMod(run, index, pathOk) ==
    IF ~ValidIndex(run.mods, index) THEN [run EXCEPT !.ret = FALSE]
    ELSE LET m == run.mods[index + 1]
             asked == [run EXCEPT !.trace = Append(@, MEv("GetModuleFileNameA", m.hModule))]
             path == LibPath[m.hModule]
             disables == m.enabled /\ m.onDisable # "absent"
             disabled == IF disables THEN [asked EXCEPT !.trace = Append(@, MEv("onDisable", m.hModule))]
                                     ELSE asked
             erased == [disabled EXCEPT
                           !.trace = Append(@, MEv("FreeLibrary", m.hModule)),
                           !.mods = SubSeq(@, 1, index) \o SubSeq(@, index + 2, Len(@))]
         IN IF ~pathOk THEN [asked EXCEPT !.ret = FALSE]
            ELSE IF disables /\ m.onDisable = "std" THEN [disabled EXCEPT !.ret = FALSE]
            ELSE IF disables /\ m.onDisable = "other" THEN [disabled EXCEPT !.escaped = TRUE]
            ELSE LoadModFromFile(erased, path)

\* what the accessors hand out for an index without record: function-local
\* statics, written by no code of the repository (the menu writes through the
\* reference of GetModEnabled only for the indices below GetModCount)
emptyInfo == [name |-> ""]
dummyEnabled == FALSE
emptyName == "<invalid mod>"

\* ModLoader::GetModInfo(index)
GetModInfo(run, index) ==
    [run EXCEPT !.ret = IF ~ValidIndex(run.mods, index) THEN emptyInfo
                        ELSE run.mods[index + 1].info]
\* ModLoader::GetModEnabled(index)
GetModEnabled(run, index) ==
    [run EXCEPT !.ret = IF ~ValidIndex(run.mods, index) THEN dummyEnabled
                        ELSE run.mods[index + 1].enabled]
\* ModLoader::GetModName(index)
GetModName(run, index) ==
    [run EXCEPT !.ret = IF ~ValidIndex(run.mods, index) THEN emptyName
                        ELSE run.mods[index + 1].info.name]
\* ModLoader::toString(index)
toString(run, index) ==
    [run EXCEPT !.ret = IF ~ValidIndex(run.mods, index) THEN "Error: Invalid mod index"
                        ELSE "Information\nName: " \o run.mods[index + 1].info.name \o "\n"]

\* the indices the callers pass: those of the records, one below, one above
Indexes == -1..MaxFiles

\* The operations of the module manager, as the menu, the overlay and the
\* modules call them.
ModCalls ==
    \/ \E entries \in DirectoryOrders, dirOk \in BOOLEAN : LoadMods(entries, dirOk)
    \/ \E index \in Indexes :
          ModDone("EnableMod", index, EnableMod(ModRun(mods), index), EnabledAt(mods, index))
    \/ \E index \in Indexes :
          ModDone("DisableMod", index, DisableMod(ModRun(mods), index), EnabledAt(mods, index))
    \/ \E i \in 0..(Len(mods) - 1) :
          ModDone("Checkbox", i, Checkbox(ModRun(mods), i), EnabledAt(mods, i))
    \/ \E index \in Indexes :
          ModDone("Render", index, Render(ModRun(mods), index), EnabledAt(mods, index))
    \/ ModDone("RenderAll", -1, RenderAll(ModRun(mods), 0), "-")
    \/ ModDone("UnloadAllMods", -1, UnloadAllMods(ModRun(mods)), "-")
    \/ \E index \in Indexes, pathOk \in BOOLEAN :
          ModDone("ReloadMod", index, ReloadMod(ModRun(mods), index, pathOk), EnabledAt(mods, index))
    \/ \E index \in Indexes :
          ModDone("GetModInfo", index, GetModInfo(ModRun(mods), index), EnabledAt(mods, index))
    \/ \E index \in Indexes :
          ModDone("GetModEnabled", index, GetModEnabled(ModRun(mods), index), EnabledAt(mods, index))
    \/ \E index \in Indexes :
          ModDone("GetModName", index, GetModName(ModRun(mods), index), EnabledAt(mods, index))
    \/ \E index \in Indexes :
          ModDone("toString", index, toString(ModRun(mods), index), EnabledAt(mods, index))

(***************************************************************************)
(* The menu: Menu::Render (menu.cpp) and its switch (main.cpp).            *)
(***************************************************************************)
\* Menu::Render as the overlay present calls it: nothing when the menu is
\* hidden, else the menu's widgets and ModLoader::RenderAll
Menu_Render(ms, show) == IF ~show THEN ModRun(ms) ELSE RenderAll(ModRun(ms), 0)

(***************************************************************************)
(* The overlay present: RenderImGui_Vulkan.                                *)
(***************************************************************************)
\* DoesQueueSupportGraphic(queue, &graphicQueue) from family i, queue j on:
\* the returned flag and the value left in graphicQueue. vkGetDeviceQueue of
\* g_Device yields the handle of the queue (i, j).
RECURSIVE DoesQueueSupportGraphicFrom(_, _, _, _, _, _, _)
DoesQueueSupportGraphicFrom(families, device, queue, graphicQueue, i, j, found) ==
    IF i >= Len(families) THEN [supports |-> found, graphicQueue |-> graphicQueue]
    ELSE IF j >= families[i + 1].queueCount
    THEN DoesQueueSupportGraphicFrom(families, device, queue, graphicQueue, i + 1, 0, found)
    ELSE LET familySupportsGraphics == families[i + 1].graphics
             currentQueue == QueueHandle(device, i, j)
             gq == IF familySupportsGraphics /\ graphicQueue = NULL THEN currentQueue ELSE graphicQueue
         IN IF queue = currentQueue /\ familySupportsGraphics /\ gq # NULL
            THEN [supports |-> TRUE, graphicQueue |-> gq]
            ELSE DoesQueueSupportGraphicFrom(families, device, queue, gq, i, j + 1,
                                             found \/ (queue = currentQueue /\ familySupportsGraphics))

DoesQueueSupportGraphic(families, device, queue, graphicQueue) ==
    IF queue = NULL \/ device = NULL
    THEN [supports |-> FALSE, graphicQueue |-> graphicQueue]
    ELSE DoesQueueSupportGraphicFrom(families, device, queue, graphicQueue, 0, 0, FALSE)

\* The state of one run of RenderImGui_Vulkan: the overlay globals o, the
\* local `result`, the calls made so far, the host's pResults array, and how
\* the run stands: "run", "return" (with ret), "crash" or "hang".
RenderStart(o) ==
    [o |-> o, result |-> VK_SUCCESS, trace |-> << >>, results |-> << >>,
     done |-> "run", ret |-> "-", faultHit |-> FALSE, ubHit |-> FALSE]

Ev(fn, obj, arg) == Call(fn, "driver", obj, arg)
Return(st, ret) == [st EXCEPT !.done = "return", !.ret = ret, !.result = ret]

\* a call handed a null handle: the driver's behaviour is undefined; with
\* ub = "crash" the process dies in the call, with ub = "proceed" the call
\* returns VK_SUCCESS and has no effect
Undefined(st, ub, ev) ==
    IF st.done # "run" THEN st
    ELSE IF ub = "crash" THEN [st EXCEPT !.done = "crash", !.ubHit = TRUE, !.trace = Append(@, ev)]
                    ELSE [st EXCEPT !.ubHit = TRUE, !.trace = Append(@, ev), !.result = VK_SUCCESS]
\* an underlying call that returns an error: RenderImGui_Vulkan returns it
Failed(st, ev) ==
    [st EXCEPT !.done = "return", !.ret = FaultResult, !.result = FaultResult,
               !.faultHit = TRUE, !.trace = Append(@, ev)]

\* variant for C29: the present goes on without creating render targets
StageCreate_never(st, i, surf, c) == st
\* lines 904-907: create the render targets when slot 0 has no framebuffer
StageCreate(st, i, surf, c) ==
    IF st.done # "run" \/ st.o.g_Frames[0].Framebuffer # NULL THEN st
    ELSE LET n == IF surf.imageCount > FrameCapacity THEN FrameCapacity ELSE surf.imageCount
             f == c.fault
             applies == /\ f.surface = i
                        /\ StepPos(f.step, f.slot, n) > 0
                        /\ f.slot < n
                        /\ (f.slot = 0 \/ f.step \in {SlotCreateSteps[k] : k \in 1..Len(SlotCreateSteps)}
                                       \/ f.step \in {"vkCreateImageView", "vkCreateFramebuffer"})
                        /\ (f.step = "vkCreateRenderPass" => st.o.g_RenderPass = NULL)
                        /\ (f.step = "vkCreateDescriptorPool" => st.o.g_DescriptorPool = NULL)
             failAt == IF applies THEN StepPos(f.step, f.slot, n) ELSE NeverFails
         IN [st EXCEPT !.o = CreateRenderTarget(st.o, surf.imageCount, st.o.g_ImageExtent, failAt),
                       !.faultHit = @ \/ applies,
                       !.trace = Append(@, Ev("CreateRenderTarget", i,
                                              [failAt |-> failAt, extent |-> st.o.g_ImageExtent,
                                               renderPass |-> st.o.g_RenderPass,
                                               descriptorPool |-> st.o.g_DescriptorPool]))]

\* variant for C10: the error return comes after the fence of slot 0 was reset
StageIndex_afterReset(st, i, surf) ==
    IF st.done # "run" THEN st
    ELSE IF surf.imageIndex >= FrameCapacity
    THEN [st EXCEPT !.done = "return", !.ret = VK_ERROR_INITIALIZATION_FAILED,
                    !.o.g_Frames[0].fenceState = IF @ = "none" THEN @ ELSE "unsignaled"]
    ELSE st
\* lines 909-913: the bounds check of the image index
StageIndex(st, i, surf) ==
    IF st.done # "run" THEN st
    ELSE IF surf.imageIndex >= FrameCapacity THEN Return(st, VK_ERROR_INITIALIZATION_FAILED)
    ELSE st

\* lines 918-923: vkWaitForFences with no timeout
StageWait(st, i, surf, c) ==
    IF st.done # "run" THEN st
    ELSE LET fd == st.o.g_Frames[surf.imageIndex]
             ev == Ev("vkWaitForFences", surf.imageIndex, fd.Fence)
         IN IF fd.Fence = NULL THEN Undefined(st, c.ub, ev)
            ELSE IF c.fault = Fault(i, "vkWaitForFences", 0) THEN Failed(st, ev)
            \* reset and never submitted: no one signals the fence
            ELSE IF fd.fenceState = "unsignaled"
            THEN [st EXCEPT !.done = "hang", !.trace = Append(@, ev)]
            \* in flight: the wait ends when the GPU completes the submission
            ELSE [st EXCEPT !.o.g_Frames[surf.imageIndex].fenceState = "signaled",
                            !.o.g_Frames[surf.imageIndex].cbState =
                                IF fd.fenceState = "inflight" THEN "invalid" ELSE @,
                            !.result = VK_SUCCESS,
                            !.trace = Append(@, ev)]

\* lines 925-929: vkResetFences
StageReset(st, i, surf, c) ==
    IF st.done # "run" THEN st
    ELSE LET fd == st.o.g_Frames[surf.imageIndex]
             ev == Ev("vkResetFences", surf.imageIndex, fd.Fence)
         IN IF fd.Fence = NULL THEN Undefined(st, c.ub, ev)
            ELSE IF c.fault = Fault(i, "vkResetFences", 0) THEN Failed(st, ev)
            ELSE [st EXCEPT !.o.g_Frames[surf.imageIndex].fenceState = "unsignaled",
                            !.result = VK_SUCCESS,
                            !.trace = Append(@, ev)]

\* lines 931-946: vkResetCommandBuffer, vkBeginCommandBuffer
StageBegin(st, i, surf, c) ==
    IF st.done # "run" THEN st
    ELSE LET fd == st.o.g_Frames[surf.imageIndex]
             ev1 == Ev("vkResetCommandBuffer", surf.imageIndex, fd.CommandBuffer)
             ev2 == Ev("vkBeginCommandBuffer", surf.imageIndex, fd.CommandBuffer)
         IN IF fd.CommandBuffer = NULL THEN Undefined(Undefined(st, c.ub, ev1), c.ub, ev2)
            ELSE IF c.fault = Fault(i, "vkResetCommandBuffer", 0) THEN Failed(st, ev1)
            ELSE IF c.fault = Fault(i, "vkBeginCommandBuffer", 0)
            THEN Failed([st EXCEPT !.o.g_Frames[surf.imageIndex].cbState = "initial",
                                   !.trace = Append(@, ev1)], ev2)
            ELSE [st EXCEPT !.o.g_Frames[surf.imageIndex].cbState = "recording",
                            !.result = VK_SUCCESS,
                            !.trace = @ \o << ev1, ev2 >>]

\* lines 948-1004: the render pass with the overlay content, vkEndCommandBuffer
StageRecord(st, i, surf, c) ==
    IF st.done # "run" THEN st
    ELSE LET fd == st.o.g_Frames[surf.imageIndex]
             pass == Ev("vkCmdBeginRenderPass", surf.imageIndex,
                        [renderPass |-> st.o.g_RenderPass, framebuffer |-> fd.Framebuffer,
                         fbExtent |-> fd.fbExtent,
                         renderArea |-> RenderAreaExtent(st.o.g_ImageExtent)])
             menu == Ev("Menu::Render", surf.imageIndex, "-")
             \* the render hooks Menu::Render reaches through ModLoader::RenderAll
             hooks == [k \in 1..Len(c.menu.trace) |->
                          Call(c.menu.trace[k].fn, "module", c.menu.trace[k].mod, i)]
             endpass == Ev("vkCmdEndRenderPass", surf.imageIndex, fd.CommandBuffer)
             endcb == Ev("vkEndCommandBuffer", surf.imageIndex, fd.CommandBuffer)
             recorded == [st EXCEPT !.trace = @ \o << pass, menu >> \o hooks \o << endpass >>]
             \* an exception no handler catches leaves the entry point
             thrown == [st EXCEPT !.done = "crash", !.trace = @ \o << pass, menu >> \o hooks]
         IN IF fd.CommandBuffer = NULL \/ fd.Framebuffer = NULL \/ st.o.g_RenderPass = NULL
            THEN (IF c.ub = "crash" THEN Undefined(st, c.ub, pass)
                  ELSE IF c.menu.escaped THEN [thrown EXCEPT !.ubHit = TRUE]
                  ELSE Undefined(recorded, c.ub, endcb))
            ELSE IF c.menu.escaped THEN thrown
            ELSE IF c.fault = Fault(i, "vkEndCommandBuffer", 0) THEN Failed(recorded, endcb)
            ELSE [recorded EXCEPT !.o.g_Frames[surf.imageIndex].cbState = "executable",
                                  !.result = VK_SUCCESS,
                                  !.trace = Append(@, endcb)]

\* lines 1006-1085: submission and present of surface i
StageSubmit(st, i, surf, c) ==
    IF st.done # "run" THEN st
    ELSE LET slot == surf.imageIndex
             fd == st.o.g_Frames[slot]
             fsd == st.o.g_FrameSemaphores[slot]
             waitSemaphoresCount == IF i = 1 THEN c.waitSemaphoreCount ELSE 0
             signalOnly == Ev("vkQueueSubmit", c.queue,
                              [surface |-> i, slot |-> slot, commandBuffer |-> NULL,
                               waitCount |-> 0, wait |-> NULL,
                               signal |-> fsd.RenderCompleteSemaphore, fence |-> NULL])
             chained == Ev("vkQueueSubmit", c.graphicQueue,
                           [surface |-> i, slot |-> slot, commandBuffer |-> fd.CommandBuffer,
                            waitCount |-> 1, wait |-> fsd.RenderCompleteSemaphore,
                            signal |-> fsd.ImageAcquiredSemaphore, fence |-> fd.Fence])
             single == Ev("vkQueueSubmit", c.graphicQueue,
                          [surface |-> i, slot |-> slot, commandBuffer |-> fd.CommandBuffer,
                           waitCount |-> waitSemaphoresCount,
                           wait |-> IF waitSemaphoresCount > 0 THEN "pWaitSemaphores" ELSE NULL,
                           signal |-> fsd.ImageAcquiredSemaphore, fence |-> fd.Fence])
             chain_result == IF c.fault = Fault(i, "vkQueuePresentKHR", 0) THEN FaultResult ELSE VK_SUCCESS
             present == Call("vkQueuePresentKHR", c.present.impl, c.queue,
                             [surface |-> i, swapchainCount |-> 1, imageIndex |-> slot,
                              waitCount |-> 1, wait |-> fsd.ImageAcquiredSemaphore,
                              result |-> chain_result])
             \* the submission of the command buffer with the slot's fence
             submitted(s) == [s EXCEPT !.o.g_Frames[slot].fenceState =
                                          IF fd.Fence # NULL THEN "inflight" ELSE @,
                                      !.o.g_Frames[slot].cbState =
                                          IF fd.CommandBuffer # NULL THEN "pending" ELSE @,
                                      !.result = VK_SUCCESS]
         IN IF waitSemaphoresCount = 0 /\ ~c.queueSupportsGraphic
            THEN IF c.fault = Fault(i, "vkQueueSubmit.signal", 0) THEN Failed(st, signalOnly)
                 ELSE IF c.fault = Fault(i, "vkQueueSubmit", 0)
                 THEN Failed([st EXCEPT !.trace = Append(@, signalOnly)], chained)
                 ELSE submitted([st EXCEPT !.trace = @ \o << signalOnly, chained >>])
            ELSE IF c.fault = Fault(i, "vkQueueSubmit", 0) THEN Failed(st, single)
                 ELSE IF c.present = NullFn
                 \* call through a null function pointer
                 THEN [submitted([st EXCEPT !.trace = Append(@, single)]) EXCEPT !.done = "crash"]
                 ELSE LET s == submitted([st EXCEPT !.trace = @ \o << single, present >>])
                      IN [s EXCEPT !.results = IF c.hasResults THEN [@ EXCEPT ![i] = chain_result] ELSE @,
                                   !.faultHit = @ \/ chain_result # VK_SUCCESS,
                                   !.result = IF chain_result # VK_SUCCESS /\ s.result = VK_SUCCESS
                                              THEN chain_result ELSE s.result]

\* the body of the loop over the swapchains of the present call, from surface i on
RECURSIVE RenderSurfaces(_, _, _, _)
RenderSurfaces(st, surfaces, i, c) ==
    IF st.done # "run" THEN st
    ELSE IF i > Len(surfaces) THEN [st EXCEPT !.done = "return", !.ret = st.result]
    ELSE RenderSurfaces(
             StageSubmit(
               StageRecord(
                 StageBegin(
                   StageReset(
                     StageWait(
                       StageIndex(
                         StageCreate(st, i, surfaces[i], c),
                         i, surfaces[i]),
                       i, surfaces[i], c),
                     i, surfaces[i], c),
                   i, surfaces[i], c),
                 i, surfaces[i], c),
               i, surfaces[i], c),
             surfaces, i + 1, c)

\* RenderImGui_Vulkan(queue, pPresentInfo) on the registry maps and the overlay
\* state o: the final state of the run and the new g_queue_data
RenderImGui_Vulkan(o, queue, info, fault, ub) ==
    LET \* GetQueueData(queue)
        gq == MapIndex(g_queue_data, queue, NullQueueData)
        queue_data == gq[queue]
        device_data == g_device_dispatch[queue_data.device]
        bound == [o EXCEPT !.g_Device = device_data.device]
        start == [RenderStart(o) EXCEPT !.results = [k \in 1..Len(info.surfaces) |-> "unset"]]
    IN
    IF queue_data.device = NULL
    THEN [st |-> Return(start, VK_ERROR_INITIALIZATION_FAILED), gq |-> gq]
    ELSE IF device_data.device = NULL
    THEN [st |-> Return([start EXCEPT !.o = bound], VK_ERROR_INITIALIZATION_FAILED), gq |-> gq]
    ELSE IF device_data.graphic_queue = NULL
    \* queue_data->device->graphic_queue->queue reads through a null pointer
    THEN [st |-> [start EXCEPT !.o = bound, !.done = "crash"], gq |-> gq]
    ELSE LET support == DoesQueueSupportGraphic(g_QueueFamilies, bound.g_Device, queue,
                                                gq[device_data.graphic_queue].queue)
             c == [queue |-> queue, graphicQueue |-> support.graphicQueue,
                   queueSupportsGraphic |-> support.supports,
                   waitSemaphoreCount |-> info.waitSemaphoreCount,
                   hasResults |-> info.hasResults,
                   present |-> device_data.vtable.QueuePresentKHR,
                   menu |-> Menu_Render(mods, bShowMenu),
                   fault |-> fault, ub |-> ub]
         IN [st |-> RenderSurfaces([start EXCEPT !.o = bound], info.surfaces, 1, c), gq |-> gq]

(***************************************************************************)
(* Present, swapchain creation, setup and the GPU.                         *)
(***************************************************************************)
\* ModLoader_QueuePresentKHR. nextRet is the result of the next layer's
\* present when the call is forwarded as it is.
ModLoader_QueuePresentKHR(queue, info, nextRet, fault, ub) ==
    LET key == GetKey(queue)
        dd == MapIndex(device_dispatch, key, NullDeviceTable)
        had == key \in DOMAIN device_dispatch /\ device_dispatch[key] # NullDeviceTable
        base == [Outcome("QueuePresentKHR", queue, "-", "-", nextRet, FALSE, FALSE, had, NullFn)
                    EXCEPT !.info = info, !.fault = fault, !.ub = ub]
    IN
    /\ Callable
    /\ queue \in DOMAIN g_queue_data
    /\ IF g_Hwnd = NULL
       THEN /\ fault = NoFault /\ ub = "crash"
            /\ device_dispatch' = dd
            /\ IF dd[key].QueuePresentKHR = NullFn
               \* call through a null function pointer
               THEN /\ proc' = "crashed"
                    /\ calls' = << >>
                    /\ last' = [base EXCEPT !.ret = NO_RETURN]
               ELSE /\ calls' = << Call("vkQueuePresentKHR", dd[key].QueuePresentKHR.impl, queue, info) >>
                    /\ last' = [base EXCEPT !.ret = nextRet]
                    /\ UNCHANGED proc
            /\ UNCHANGED << g_queue_data, overlayVars >>
       ELSE /\ nextRet = VK_SUCCESS
            /\ fault.surface <= Len(info.surfaces)
            /\ \E r \in {RenderImGui_Vulkan(Overlay, queue, info, fault, ub)} :
                  \* a fault or an outcome of undefined behaviour that the run
                  \* never meets is the run without it
                  /\ fault = NoFault \/ r.st.faultHit
                  /\ ub = "crash" \/ r.st.ubHit
                  /\ g_queue_data' = r.gq
                  /\ SetOverlay(r.st.o)
                  /\ calls' = r.st.trace
                  /\ proc' = CASE r.st.done = "crash" -> "crashed"
                                [] r.st.done = "hang" -> "hung"
                                [] OTHER -> "running"
                  /\ last' = [base EXCEPT !.ret = IF r.st.done = "return" THEN r.st.ret ELSE NO_RETURN,
                                          !.results = r.st.results]
            /\ UNCHANGED device_dispatch
    /\ UNCHANGED << instance_dispatch, g_device_dispatch, setupVars, status >>
    /\ UNCHANGED << modVars, threadVars, menuVars >>

\* ModLoader_CreateSwapchainKHR
ModLoader_CreateSwapchainKHR(device, imageExtent, nextRet) ==
    LET key == GetKey(device)
        dd == MapIndex(device_dispatch, key, NullDeviceTable)
        had == key \in DOMAIN device_dispatch /\ device_dispatch[key] # NullDeviceTable
        base == [Outcome("CreateSwapchainKHR", device, "-", "-", nextRet, FALSE, FALSE, had, NullFn)
                    EXCEPT !.info = imageExtent]
    IN
    /\ Callable
    /\ status[device] # "never"
    /\ SetOverlay([CleanupRenderTarget(Overlay) EXCEPT !.g_ImageExtent = imageExtent])
    /\ device_dispatch' = dd
    /\ IF dd[key].CreateSwapchainKHR = NullFn
       \* call through a null function pointer
       THEN /\ proc' = "crashed"
            /\ calls' = << >>
            /\ last' = [base EXCEPT !.ret = NO_RETURN]
       ELSE /\ calls' = << Call("vkCreateSwapchainKHR", dd[key].CreateSwapchainKHR.impl, device, imageExtent) >>
            /\ last' = [base EXCEPT !.ret = nextRet]
            /\ UNCHANGED proc
    /\ UNCHANGED << instance_dispatch, g_device_dispatch, g_queue_data, setupVars, status >>
    /\ UNCHANGED << modVars, threadVars, menuVars >>

\* the queue families a physical device reports
FamilyConfigs == {
    << [graphics |-> TRUE, queueCount |-> 1], [graphics |-> FALSE, queueCount |-> 1] >>,
    << [graphics |-> FALSE, queueCount |-> 1], [graphics |-> TRUE, queueCount |-> 1] >>,
    << [graphics |-> FALSE, queueCount |-> 1] >> }
\* the steps of CreateDeviceVK that can fail
CreateDeviceVKSteps == {"vkCreateInstance", "vkEnumeratePhysicalDevices", "vkCreateDevice"}

\* CreateDeviceVK: whether it succeeds, and the queue-family globals it leaves
CreateDeviceVK(families, failed) ==
    LET reached == failed \notin {"vkCreateInstance", "vkEnumeratePhysicalDevices"}
        graphics == {i \in 0..(Len(families) - 1) : families[i + 1].graphics}
        first == IF graphics = {} THEN -1 ELSE CHOOSE i \in graphics : \A k \in graphics : i <= k
    IN [ok |-> reached /\ first # -1 /\ failed # "vkCreateDevice",
        g_QueueFamilies |-> IF reached THEN families ELSE g_QueueFamilies,
        g_QueueFamily |-> IF reached THEN first ELSE g_QueueFamily]

\* layer::setup(hwnd), called once by the hook thread
setup(families, failed) ==
    LET r == CreateDeviceVK(families, failed) IN
    /\ proc = "running"
    /\ last.op = "idle"
    /\ ~setup_called
    /\ setup_called' = TRUE
    /\ g_QueueFamilies' = r.g_QueueFamilies
    /\ g_QueueFamily' = r.g_QueueFamily
    /\ g_Hwnd' = IF r.ok THEN "hwnd" ELSE g_Hwnd
    /\ UNCHANGED << registryVars, overlayVars, status, proc, last, calls >>
    /\ UNCHANGED << modVars, threadVars, menuVars >>

\* the GPU completes the submission that signals the fence of a slot
GpuComplete(slot) ==
    /\ proc = "running"
    /\ last.op = "idle"
    /\ g_Frames[slot].fenceState = "inflight"
    /\ g_Frames' = [g_Frames EXCEPT ![slot].fenceState = "signaled", ![slot].cbState = "invalid"]
    /\ UNCHANGED << registryVars, g_Device, g_ImageExtent, g_MinImageCount, g_RenderPass,
                    g_DescriptorPool, g_FrameSemaphores, leaked, setupVars, status, proc, last, calls >>
    /\ UNCHANGED << modVars, threadVars, menuVars >>

(***************************************************************************)
(* Host threads inside the entry points: the accesses each entry point     *)
(* makes to the registry maps, and where it takes the global mutex.        *)
(***************************************************************************)
Threads == {"t1", "t2"}
\* what a step of an entry point touches: a map as a whole (lookup, insert,
\* erase), or the entry a lookup handed out a pointer to
Map(m) == << m, "map" >>
Entry(m, key) == << m, key >>
Rd(o) == [k |-> "read", obj |-> o]
Wr(o) == [k |-> "write", obj |-> o]
Acq == [k |-> "lock", obj |-> << "global_lock", "-" >>]
Rel == [k |-> "unlock", obj |-> << "global_lock", "-" >>]
NextCall(fn) == [k |-> "call", obj |-> << "next", fn >>]
\* scoped_lock l(global_lock); ... }
scoped_lock(steps) == << Acq >> \o steps \o << Rel >>

\* the steps of ModLoader_CreateDevice for a device with one queue (the link
\* record and the callback record present, the next layer's create succeeds)
CreateDeviceSteps(d) ==
    LET q == QueueHandle(d, 0, 0)
        data == Entry("g_device_dispatch", d)
    IN << NextCall("vkCreateDevice"), NextCall("vkGetDeviceProcAddr") >>
       \* GetDeviceData(*pDevice)->vtable = ...: the lookup inserts the entry
       \o scoped_lock(<< Wr(Map("g_device_dispatch")) >>) \o << Wr(data) >>
       \* GetDeviceData(*pDevice)->device = ...
       \o scoped_lock(<< Rd(Map("g_device_dispatch")) >>) \o << Wr(data) >>
       \* GetDeviceData(*pDevice)->set_device_loader_data = ...
       \o scoped_lock(<< Rd(Map("g_device_dispatch")) >>) \o << Wr(data) >>
       \* DeviceMapQueues(GetDeviceData(*pDevice), pCreateInfo)
       \o scoped_lock(<< Rd(Map("g_device_dispatch")) >>)
       \o << Rd(data), NextCall("vkGetDeviceQueue"), NextCall("set_device_loader_data") >>
       \* new_queue_data, then data->queues.push_back
       \o scoped_lock(<< Wr(Map("g_queue_data")) >>)
       \o << Wr(Entry("g_queue_data", q)), Wr(data), Wr(data) >>
       \o scoped_lock(<< Wr(Map("device_dispatch")) >>)

\* the steps of RenderImGui_Vulkan that touch the registry, for one surface
RenderImGuiSteps(queue) ==
    LET data == Entry("g_device_dispatch", QueueOwner[queue])
    IN scoped_lock(<< Rd(Map("g_queue_data")) >>)
       \o << Rd(Entry("g_queue_data", queue)), Rd(data), Rd(data),
             Rd(Entry("g_queue_data", queue)), Rd(data), NextCall("vkQueuePresentKHR") >>

\* the steps of an entry point called with handle h; overlay: g_Hwnd is set
EntrySteps(fn, h, overlay) ==
    CASE fn = "CreateInstance" ->
            << NextCall("vkCreateInstance"), NextCall("vkGetInstanceProcAddr") >>
            \o scoped_lock(<< Wr(Map("instance_dispatch")) >>)
      [] fn = "DestroyInstance" -> scoped_lock(<< Wr(Map("instance_dispatch")) >>)
      \* a name the layer does not intercept
      [] fn = "GetInstanceProcAddr" ->
            scoped_lock(<< Rd(Map("instance_dispatch")), NextCall("vkGetInstanceProcAddr") >>)
      [] fn = "CreateDevice" -> CreateDeviceSteps(h)
      [] fn = "DestroyDevice" -> scoped_lock(<< Wr(Map("device_dispatch")) >>)
      [] fn = "GetDeviceProcAddr" ->
            scoped_lock(<< Rd(Map("device_dispatch")), NextCall("vkGetDeviceProcAddr") >>)
      [] fn = "CreateSwapchainKHR" ->
            << Rd(Map("device_dispatch")), NextCall("vkCreateSwapchainKHR") >>
      [] fn = "QueuePresentKHR" ->
            IF overlay THEN RenderImGuiSteps(h)
            ELSE << Rd(Map("device_dispatch")), NextCall("vkQueuePresentKHR") >>

InstanceEntries == {"CreateInstance", "DestroyInstance", "GetInstanceProcAddr"}
DeviceEntries == {"CreateDevice", "DestroyDevice", "GetDeviceProcAddr", "CreateSwapchainKHR"}
QueueEntries == {"QueuePresentKHR"}
\* the queues of the devices CreateDeviceSteps creates
ThreadQueues == {QueueHandle(d, 0, 0) : d \in DevHandles}
\* the object a call is made on, and the handle the host must keep others off
EntryCalls ==
    [fn : InstanceEntries, h : {"i1"}] \cup [fn : DeviceEntries, h : DevHandles]
    \cup [fn : QueueEntries, h : ThreadQueues]
ParentOf(h) == IF h \in ThreadQueues THEN QueueOwner[h] ELSE h

ThreadIdle == [fn |-> "idle", h |-> NULL, prog |-> << >>, at |-> 1, in |-> FALSE]
ThreadInit ==
    /\ threads = [t \in Threads |-> ThreadIdle]
    /\ global_lock = NULL
\* the step a thread is at
StepOf(t) == threads[t].prog[threads[t].at]
Busy(t) == threads[t].fn # "idle"
AtStep(t, k) == Busy(t) /\ threads[t].at <= Len(threads[t].prog) /\ StepOf(t).k = k

\* A thread of the host calls an entry point. The host keeps what the API
\* makes it keep: a handle is created by one call and exists before it is
\* used, a destroy or create of an object runs alongside no other call on it
\* or its queues, and a queue is presented to by one thread at a time.
ThreadCall(t, c) ==
    LET p == ParentOf(c.h)
        others == {u \in Threads \ {t} : Busy(u) /\ ParentOf(threads[u].h) = p}
        creates == c.fn \in {"CreateInstance", "CreateDevice"}
        destroys == c.fn \in {"DestroyInstance", "DestroyDevice"}
    IN /\ ~Busy(t)
       /\ IF creates THEN status[p] # "live" /\ others = {} ELSE status[p] = "live"
       /\ destroys => others = {}
       /\ \A u \in others : threads[u].h # c.h \/ c.fn \notin QueueEntries
       /\ threads' = [threads EXCEPT ![t] = [fn |-> c.fn, h |-> c.h,
                                            prog |-> EntrySteps(c.fn, c.h, g_Hwnd # NULL),
                                            at |-> 1, in |-> FALSE]]
       /\ status' = IF destroys THEN [status EXCEPT ![p] = "destroyed"] ELSE status
       /\ UNCHANGED << registryVars, overlayVars, setupVars, setup_called, proc, last, calls,
                       modVars, menuVars, global_lock >>

Advance(t) == threads' = [threads EXCEPT ![t].at = @ + 1, ![t].in = FALSE]
ThreadUnchanged == UNCHANGED << layerVars, modVars, menuVars >>
\* std::lock_guard's constructor: blocks while another thread holds the mutex
ThreadLock(t) ==
    /\ AtStep(t, "lock")
    /\ global_lock = NULL
    /\ global_lock' = t
    /\ Advance(t)
    /\ ThreadUnchanged
\* std::lock_guard's destructor
ThreadUnlock(t) ==
    /\ AtStep(t, "unlock")
    /\ global_lock' = NULL
    /\ Advance(t)
    /\ ThreadUnchanged
\* a call into the next layer or the loader
ThreadNextCall(t) ==
    /\ AtStep(t, "call")
    /\ Advance(t)
    /\ UNCHANGED global_lock
    /\ ThreadUnchanged
\* a read or write of a map or an entry starts, and ends
ThreadAccessBegin(t) ==
    /\ AtStep(t, "read") \/ AtStep(t, "write")
    /\ ~threads[t].in
    /\ threads' = [threads EXCEPT ![t].in = TRUE]
    /\ UNCHANGED global_lock
    /\ ThreadUnchanged
ThreadAccessEnd(t) ==
    /\ Busy(t)
    /\ threads[t].in
    /\ Advance(t)
    /\ UNCHANGED global_lock
    /\ ThreadUnchanged
\* the entry point returns to the host
ThreadReturn(t) ==
    /\ Busy(t)
    /\ threads[t].at > Len(threads[t].prog)
    /\ threads' = [threads EXCEPT ![t] = ThreadIdle]
    /\ status' = IF threads[t].fn \in {"CreateInstance", "CreateDevice"}
                 THEN [status EXCEPT ![threads[t].h] = "live"] ELSE status
    /\ UNCHANGED << registryVars, overlayVars, setupVars, setup_called, proc, last, calls,
                    modVars, menuVars, global_lock >>

\* Two host threads in the entry points, and the injected library's own
\* thread calling layer::setup.
NextThreads ==
    \/ \E t \in Threads, c \in EntryCalls : ThreadCall(t, c)
    \/ \E t \in Threads : ThreadLock(t)
    \/ \E t \in Threads : ThreadUnlock(t)
    \/ \E t \in Threads : ThreadNextCall(t)
    \/ \E t \in Threads : ThreadAccessBegin(t)
    \/ \E t \in Threads : ThreadAccessEnd(t)
    \/ \E t \in Threads : ThreadReturn(t)
    \/ \E families \in FamilyConfigs : setup(families, "none")

(***************************************************************************)
(* Initial states, and the module manager and the host threads on their    *)
(* own.                                                                    *)
(***************************************************************************)
\* Menu::bShowMenu is initialised in menu.h; with an empty registry
\* Menu::Render does the same for either value
MenuInit == bShowMenu = TRUE
\* HookWndProc on the menu key: the menu is shown or hidden
ToggleMenu ==
    /\ proc = "running"
    /\ bShowMenu' = ~bShowMenu
    /\ UNCHANGED << layerVars, modVars, threadVars >>

\* the layer with an empty mods directory
Init == InitLayer /\ ModInit([p \in ModPaths |-> NoFile]) /\ ThreadInit /\ MenuInit

\* The module manager over every content of the mods directory.
InitMods == InitLayer /\ ThreadInit /\ MenuInit /\ \E d \in Disks : ModInit(d)
NextMods == ModCalls
SpecMods == InitMods /\ [][NextMods]_vars

\* The entry points interleaved step by step.
SpecThreads == Init /\ [][NextThreads]_vars

(***************************************************************************)
(* What the host passes, and the next-state relation.                      *)
(***************************************************************************)
\* the lists of surfaces of one present call; a surface is the image count
\* of its swapchain and the index of the image to present
SurfaceLists(surfaces) == UNION {[1..n -> surfaces] : n \in 0..MaxSurfaces}
\* VkPresentInfoKHR: the surfaces, waitSemaphoreCount, whether pResults is given
PresentInfos(surfaces, hasResults) ==
    [surfaces : SurfaceLists(surfaces), waitSemaphoreCount : {0, 1}, hasResults : hasResults]

\* The calls of the host and the steps of the environment over the inputs
\* in: the handles, chains, names, present infos and faults they draw from.
InstanceCalls(in) ==
    \/ \E chain \in in.chains, n \in in.layers, nextRet \in in.nextResults,
          h \in in.instances \cup in.stale :
          ModLoader_CreateInstance(chain, n, nextRet, h)
    \/ \E instance \in in.instances : ModLoader_DestroyInstance(instance)
    \/ \E instance \in in.instances \cup in.stale, pName \in in.names :
          ModLoader_GetInstanceProcAddr(instance, pName)
DeviceCalls(in) ==
    \/ \E device \in in.devices : ModLoader_DestroyDevice(device)
    \/ \E device \in in.devices, pName \in in.names : ModLoader_GetDeviceProcAddr(device, pName)
OverlayCalls(in) ==
    \/ \E chain \in in.chains, qci \in in.qcis, n \in in.layers, nextRet \in in.nextResults,
          h \in in.devices \cup in.stale :
          ModLoader_CreateDevice(chain, qci, n, nextRet, h)
    \/ \E queue \in AllQueues, info \in in.infos, nextRet \in in.nextResults,
          fault \in in.faults, ub \in in.ubs :
          ModLoader_QueuePresentKHR(queue, info, nextRet, fault, ub)
    \/ \E device \in in.devices, imageExtent \in in.extents, nextRet \in in.nextResults :
          ModLoader_CreateSwapchainKHR(device, imageExtent, nextRet)
    \/ \E families \in in.families, failed \in in.setupFaults : setup(families, failed)
    \/ \E slot \in Slots : GpuComplete(slot)
    \/ HostReturn

\* The registry and the shim: one instance and one device that the host
\* creates, destroys and creates again through either next layer, with every
\* chain and every name; presents of one surface of a one-image swapchain.
ShimInputs ==
    [instances |-> {"i1"}, devices |-> {"d1"}, stale |-> {NULL}, layers |-> NextLayers,
     chains |-> Chains, qcis |-> QueueCreateInfos, names |-> ProcNames,
     nextResults |-> NextResults,
     infos |-> [surfaces : {<< [imageCount |-> 1, imageIndex |-> 0] >>},
                waitSemaphoreCount : {0, 1}, hasResults : {FALSE}],
     faults |-> {NoFault}, ubs |-> {"crash"},
     extents |-> {ZeroExtent, [width |-> 800, height |-> 600]},
     families |-> {<< [graphics |-> TRUE, queueCount |-> 1], [graphics |-> FALSE, queueCount |-> 1] >>},
     setupFaults |-> {"none"} \cup CreateDeviceVKSteps]
Next == InstanceCalls(ShimInputs) \/ DeviceCalls(ShimInputs) \/ OverlayCalls(ShimInputs)
Spec == Init /\ [][Next]_vars

\* The overlay: one device with a queue of each of two families; presents of
\* up to MaxSurfaces surfaces on either queue, an underlying call that fails,
\* both outcomes of undefined behaviour.
OverlaySurfaces == {[imageCount |-> 2, imageIndex |-> 0], [imageCount |-> 2, imageIndex |-> 1],
                    [imageCount |-> FrameCapacity + 1, imageIndex |-> FrameCapacity]}
OverlayFaults == {NoFault, Fault(1, "vkGetSwapchainImagesKHR.count", 0), Fault(1, "vkCreateFramebuffer", 0),
                  Fault(1, "vkCreateFramebuffer", 1)}
                    \cup {Fault(s, step, 0) : s \in 1..MaxSurfaces,
                                              step \in {"vkBeginCommandBuffer", "vkQueuePresentKHR"}}
OverlayInputs ==
    [devices |-> {"d1"}, stale |-> {}, layers |-> {"nextA"},
     chains |-> {<< LinkD, CallbackD >>},
     qcis |-> {<< [queueFamilyIndex |-> 0, queueCount |-> 1], [queueFamilyIndex |-> 1, queueCount |-> 1] >>},
     nextResults |-> {VK_SUCCESS},
     infos |-> PresentInfos(OverlaySurfaces, {TRUE}),
     faults |-> OverlayFaults, ubs |-> {"crash", "proceed"},
     extents |-> Extents \ {ZeroExtent},
     families |-> FamilyConfigs,
     setupFaults |-> {"none"}]
NextOverlay == OverlayCalls(OverlayInputs)
SpecOverlay == Init /\ [][NextOverlay]_vars

\* The overlay with modules: one device with one queue, presents of up to
\* MaxSurfaces surfaces without faults, the modules of the mods directory
\* loaded and switched on and off through the menu's checkboxes, and the
\* menu shown and hidden.
MenuFiles == {ModuleFile(TRUE, "ok", "ok", "ok", "ok", "ok"),
              ModuleFile(TRUE, "ok", "absent", "ok", "ok", "other")}
MenuDisks == [ModPaths -> MenuFiles]
MenuInputs ==
    [devices |-> {"d1"}, stale |-> {}, layers |-> {"nextA"},
     chains |-> {<< LinkD, CallbackD >>},
     qcis |-> {<< [queueFamilyIndex |-> 0, queueCount |-> 1] >>},
     nextResults |-> {VK_SUCCESS},
     infos |-> PresentInfos({[imageCount |-> 2, imageIndex |-> 0],
                             [imageCount |-> 2, imageIndex |-> 1]}, {TRUE}),
     faults |-> {NoFault}, ubs |-> {"crash"},
     extents |-> {[width |-> 800, height |-> 600]},
     families |-> {<< [graphics |-> TRUE, queueCount |-> 1] >>},
     setupFaults |-> {"none"}]
InitMenu == InitLayer /\ ThreadInit /\ MenuInit /\ \E d \in MenuDisks : ModInit(d)
NextMenu ==
    \/ OverlayCalls(MenuInputs)
    \/ \E entries \in DirectoryOrders : LoadMods(entries, TRUE)
    \/ \E i \in 0..(Len(mods) - 1) :
          ModDone("Checkbox", i, Checkbox(ModRun(mods), i), EnabledAt(mods, i))
    \/ ToggleMenu
SpecMenu == InitMenu /\ [][NextMenu]_vars

(***************************************************************************)
(* The registry and the shim: claims C1 to C7.                             *)
(***************************************************************************)
\* the function names the specification lists as intercepted
InterceptedNames == {"vkCreateInstance", "vkDestroyInstance", "vkCreateDevice", "vkDestroyDevice",
                     "vkGetInstanceProcAddr", "vkGetDeviceProcAddr",
                     "vkCreateSwapchainKHR", "vkQueuePresentKHR"}
Resolvers == {"GetInstanceProcAddr", "GetDeviceProcAddr"}
Creates == {"CreateInstance", "CreateDevice"}
\* whether a chain holds a record of structure type sType with function func
HasRecord(chain, sType, func) ==
    \E k \in 1..Len(chain) : chain[k].sType = sType /\ chain[k].function = func
\* whether the chain passed to the create that `last` describes holds the
\* next-layer link record of that create
LastHasLink ==
    HasRecord(last.info,
              IF last.op = "CreateInstance" THEN "LOADER_INSTANCE_CREATE_INFO"
                                            ELSE "LOADER_DEVICE_CREATE_INFO",
              "LAYER_LINK_INFO")

\* C1: for every object identity k, after DestroyInstance/DestroyDevice for k
\* the registry holds no entry for k, and no later resolution, present or
\* swapchain creation that mentions k brings one back: a lookup never
\* re-creates an entry.
C1_LookupNeverRecreates ==
    [][last'.op \notin Creates
          => /\ \A i \in InstHandles :
                    (status[i] = "destroyed" /\ GetKey(i) \notin DOMAIN instance_dispatch)
                        => GetKey(i) \notin DOMAIN instance_dispatch'
             /\ \A d \in DevHandles :
                    (status[d] = "destroyed" /\ GetKey(d) \notin DOMAIN device_dispatch)
                        => GetKey(d) \notin DOMAIN device_dispatch']_vars

\* C2: for every intercepted name, both resolvers return this layer's own
\* entry point.
C2_BothResolversReturnOwn ==
    (last.op \in Resolvers /\ last.name \in InterceptedNames /\ last.ret # NO_RETURN)
        => last.fn.impl = "ModLoader"

\* C3: the resolution of a name that is not exactly an intercepted name, for
\* an object with a stored dispatch table, makes one call, to the resolver
\* stored in that table, with the object and the name, and returns what that
\* resolver answers.
C3_ForwardedUnchanged ==
    (last.op \in Resolvers /\ last.name \notin InterceptedNames /\ last.hadTable)
        => LET table == IF last.op = "GetDeviceProcAddr"
                        THEN device_dispatch[GetKey(last.handle)].GetDeviceProcAddr
                        ELSE instance_dispatch[GetKey(last.handle)].GetInstanceProcAddr
           IN /\ last.ret # NO_RETURN
              /\ calls = << Call("vk" \o last.op, table.impl, last.handle, last.name) >>
              /\ table.impl \in NextLayers
              /\ last.fn = IF last.op = "GetDeviceProcAddr"
                           THEN NextGetDeviceProcAddr(table.impl, last.name)
                           ELSE NextGetInstanceProcAddr(table.impl, last.name)
\* a name that differs from an intercepted one only in case was forwarded
C3_Witness ==
    /\ last.op = "GetInstanceProcAddr" /\ last.name = "vkcreatedevice" /\ last.hadTable
    /\ Len(calls) = 1 /\ calls[1].impl = "nextB" /\ last.fn = NullFn

\* C4: CreateInstance and CreateDevice return the result code of the next
\* layer's create function: when it fails with E, they return E.
C4_CreateReturnsNextResult ==
    (last.op \in Creates /\ last.nextRet \in NextErrors /\ last.ret # NO_RETURN)
        => last.ret = last.nextRet

\* C5: a create whose chain holds no next-layer link record returns
\* VK_ERROR_INITIALIZATION_FAILED, calls nothing and changes no registry map.
C5_NoLinkFails ==
    [][(last'.op \in Creates /\ last.op = "idle" /\ ~LastHasLink')
          => /\ last'.ret = VK_ERROR_INITIALIZATION_FAILED
             /\ calls' = << >>
             /\ proc' = "running"
             /\ UNCHANGED registryVars]_vars
\* a device create whose chain holds only the loader-data callback record failed
C5_Witness ==
    /\ last.op = "CreateDevice" /\ last.info = << CallbackD >>
    /\ last.ret = VK_ERROR_INITIALIZATION_FAILED /\ calls = << >>

\* C6: a device create whose chain holds the link record but no loader-data
\* callback record returns VK_ERROR_INITIALIZATION_FAILED.
C6_NoCallbackFails ==
    (/\ last.op = "CreateDevice" /\ last.handle # NULL
     /\ HasRecord(last.info, "LOADER_DEVICE_CREATE_INFO", "LAYER_LINK_INFO")
     /\ ~HasRecord(last.info, "LOADER_DEVICE_CREATE_INFO", "LOADER_DATA_CALLBACK"))
        => last.ret = VK_ERROR_INITIALIZATION_FAILED

\* C7: while no window is attached, a present on a queue of a live device
\* makes one call, the next layer's present with the host's queue and present
\* info, returns its result, and leaves the overlay state as it was.
C7_ForwardsUnchanged ==
    [][(/\ last'.op = "QueuePresentKHR" /\ last.op = "idle"
        /\ g_Hwnd = NULL
        /\ status[QueueOwner[last'.handle]] = "live")
          => /\ calls' = << Call("vkQueuePresentKHR",
                                 device_dispatch[GetKey(QueueOwner[last'.handle])].QueuePresentKHR.impl,
                                 last'.handle, last'.info) >>
             /\ calls'[1].impl \in NextLayers
             /\ last'.ret = last'.nextRet
             /\ UNCHANGED overlayVars]_vars
\* a present was forwarded after a failed setup and returned the next layer's error
C7_Witness ==
    /\ last.op = "QueuePresentKHR" /\ g_Hwnd = NULL /\ setup_called
    /\ status[QueueOwner[last.handle]] = "live"
    /\ last.ret = "VK_ERROR_DEVICE_LOST" /\ Len(calls) = 1

(***************************************************************************)
(* The overlay: claims C8 to C10.                                          *)
(***************************************************************************)
\* the calls of the last entry point to the function fn, in order
CallsTo(fn) == SelectSeq(calls, LAMBDA c : c.fn = fn)
\* the overlay globals after a step
OverlayNext ==
    [g_Device |-> g_Device', g_ImageExtent |-> g_ImageExtent', g_MinImageCount |-> g_MinImageCount',
     g_RenderPass |-> g_RenderPass', g_DescriptorPool |-> g_DescriptorPool',
     g_Frames |-> g_Frames', g_FrameSemaphores |-> g_FrameSemaphores', leaked |-> leaked']

\* C8: a CreateSwapchainKHR leaves no framebuffer and no image view of the
\* render targets that existed, and records the new extent; from then on
\* every framebuffer that exists, and every framebuffer a draw begins its
\* render pass with, was created with the extent of the latest swapchain.
C8_FramebuffersOfCurrentExtent ==
    /\ last.op = "CreateSwapchainKHR"
          => /\ g_ImageExtent = last.info
             /\ \A slot \in Slots : /\ g_Frames[slot].Framebuffer = NULL
                                    /\ g_Frames[slot].BackbufferView = NULL
    /\ g_ImageExtent # ZeroExtent
          => /\ \A slot \in Slots :
                    g_Frames[slot].Framebuffer # NULL => g_Frames[slot].fbExtent = g_ImageExtent
             /\ \A k \in 1..Len(calls) :
                    (calls[k].fn = "vkCmdBeginRenderPass" /\ calls[k].arg.framebuffer # NULL)
                        => calls[k].arg.fbExtent = g_ImageExtent
\* a present created the render targets again, after a swapchain creation
\* tore down earlier ones (the descriptor pool of the earlier ones is still
\* there), and drew into a framebuffer of the new extent
C8_Witness ==
    /\ last.op = "QueuePresentKHR" /\ last.ret = VK_SUCCESS
    /\ g_ImageExtent = [width |-> 1024, height |-> 768]
    /\ \E k \in 1..Len(calls) : /\ calls[k].fn = "CreateRenderTarget"
                                 /\ calls[k].arg.descriptorPool # NULL
                                 /\ calls[k].arg.renderPass = NULL
    /\ \E k \in 1..Len(calls) : /\ calls[k].fn = "vkCmdBeginRenderPass"
                                 /\ calls[k].arg.framebuffer # NULL
                                 /\ calls[k].arg.fbExtent = [width |-> 1024, height |-> 768]

\* C9: an overlay present of N surfaces with valid image indices, created
\* slots and no failing call waits on N fences, resets N fences and makes N
\* calls to the next layer's present, the k-th waiting on the semaphore that
\* the submission of surface k signals, the N semaphores pairwise distinct.
C9_OnePresentPerSurface ==
    (/\ last.op = "QueuePresentKHR" /\ g_Hwnd # NULL
     /\ last.fault = NoFault /\ last.ub = "crash" /\ last.ret = VK_SUCCESS
     /\ \A k \in 1..Len(last.info.surfaces) :
            /\ last.info.surfaces[k].imageIndex < FrameCapacity
            /\ g_Frames[last.info.surfaces[k].imageIndex].Fence # NULL
            /\ g_Frames[last.info.surfaces[k].imageIndex].CommandBuffer # NULL
            /\ g_Frames[last.info.surfaces[k].imageIndex].Framebuffer # NULL)
        => LET N == Len(last.info.surfaces)
               presents == CallsTo("vkQueuePresentKHR")
               \* the submissions of the command buffers, one per surface
               submits == SelectSeq(calls, LAMBDA c : c.fn = "vkQueueSubmit" /\ c.arg.commandBuffer # NULL)
           IN /\ Len(CallsTo("vkWaitForFences")) = N
              /\ Len(CallsTo("vkResetFences")) = N
              /\ Len(presents) = N
              /\ Len(submits) = N
              /\ \A k \in 1..N : /\ presents[k].impl \in NextLayers
                                  /\ presents[k].arg.wait = submits[k].arg.signal
              /\ \A j, k \in 1..N : j # k => presents[j].arg.wait # presents[k].arg.wait

\* position of the first surface whose image index is out of range, 0 if none
FirstBadIndex(surfaces) ==
    IF \A k \in 1..Len(surfaces) : surfaces[k].imageIndex < FrameCapacity THEN 0
    ELSE CHOOSE k \in 1..Len(surfaces) :
             /\ surfaces[k].imageIndex >= FrameCapacity
             /\ \A j \in 1..(k - 1) : surfaces[j].imageIndex < FrameCapacity

OverlayFailSteps == {"vkWaitForFences", "vkResetFences", "vkResetCommandBuffer",
                     "vkBeginCommandBuffer", "vkEndCommandBuffer",
                     "vkQueueSubmit", "vkQueueSubmit.signal"}
\* the surface of the last present at which the overlay failed: the one whose
\* call failed, or the first one with an image index out of range; 0 if none
FailedSurface ==
    IF last.fault.step \in OverlayFailSteps THEN last.fault.surface
    ELSE IF last.fault = NoFault THEN FirstBadIndex(last.info.surfaces)
    ELSE 0
\* the family index of a queue handle
QueueFamilyIndex == [q \in AllQueues |->
                       CHOOSE f \in FamilyIndexes : \E d \in DevHandles, j \in QueueIndexes : q = QueueHandle(d, f, j)]
\* whether the family of a queue has VK_QUEUE_GRAPHICS_BIT
InGraphicsFamily(q) ==
    /\ QueueFamilyIndex[q] < Len(g_QueueFamilies)
    /\ g_QueueFamilies[QueueFamilyIndex[q] + 1].graphics
\* the vkQueueSubmit calls of the last entry point for surface k
SubmitsOf(k) == SelectSeq(calls, LAMBDA c : c.fn = "vkQueueSubmit" /\ c.arg.surface = k)

\* C11: when an overlay present returns after the overlay failed at a surface
\* (image index out of range, or a failing fence wait or reset, command
\* buffer reset, begin or end, or queue submission), the next layer's present
\* was called for that surface.
C11_FailureStillPresents ==
    (/\ last.op = "QueuePresentKHR" /\ g_Hwnd # NULL
     /\ last.ret # NO_RETURN
     /\ FailedSurface > 0)
        => \E k \in 1..Len(calls) : /\ calls[k].fn = "vkQueuePresentKHR"
                                     /\ calls[k].impl \in NextLayers
                                     /\ calls[k].arg.surface = FailedSurface

\* C12: in an overlay present that succeeds, every surface gets two chained
\* submissions when the presenting queue is not of a graphics family (one on
\* the presenting queue that signals a semaphore, one on another queue that
\* waits on it and executes the command buffer) and exactly one submission
\* when it is, whatever the host's wait-semaphore count and the position of
\* the surface.
C12_PathBySupportOnly ==
    (/\ last.op = "QueuePresentKHR" /\ g_Hwnd # NULL
     /\ last.fault = NoFault /\ last.ub = "crash" /\ last.ret = VK_SUCCESS)
        => \A k \in 1..Len(last.info.surfaces) :
              LET submits == SubmitsOf(k) IN
              IF InGraphicsFamily(last.handle)
              THEN Len(submits) = 1
              ELSE /\ Len(submits) = 2
                   /\ submits[1].obj = last.handle
                   /\ submits[1].arg.commandBuffer = NULL
                   /\ submits[2].arg.commandBuffer # NULL
                   /\ submits[2].arg.wait = submits[1].arg.signal

\* C13: every queue that a present submits the recorded command buffer on is
\* of a family with VK_QUEUE_GRAPHICS_BIT.
C13_SubmitsOnGraphicsQueue ==
    (last.op = "QueuePresentKHR" /\ g_Hwnd # NULL)
        => \A k \in 1..Len(calls) :
              (calls[k].fn = "vkQueueSubmit" /\ calls[k].arg.commandBuffer # NULL)
                  => InGraphicsFamily(calls[k].obj)

\* C14: after a CreateDevice that the next layer completed and whose create
\* info requests queues, g_queue_data holds an entry for every requested
\* (family, index) that points at the DeviceData of the new device, and the
\* graphic_queue of that DeviceData is the first queue enumerated.
C14_FirstQueueIsGraphicQueue ==
    (/\ last.op = "CreateDevice" /\ last.ret = VK_SUCCESS /\ last.nextRet = VK_SUCCESS
     /\ Len(last.qci) > 0)
        => LET key == GetKey(last.handle) IN
           /\ \A i \in 1..Len(last.qci) : \A j \in 0..(last.qci[i].queueCount - 1) :
                 LET q == QueueHandle(last.handle, last.qci[i].queueFamilyIndex, j) IN
                 /\ q \in DOMAIN g_queue_data
                 /\ g_queue_data[q].device = key
                 /\ g_queue_data[q].queue = q
           /\ g_device_dispatch[key].graphic_queue
                 = QueueHandle(last.handle, last.qci[1].queueFamilyIndex, 0)

(***************************************************************************)
(* The module manager: claims C15 to C20.                                  *)
(***************************************************************************)
\* the calls of the last operation to the hook or function fn of the module
\* with handle h
ModCallsIn(cs, fn, h) == SelectSeq(cs, LAMBDA c : c.fn = fn /\ c.mod = h)
ModCallsTo(fn, h) == ModCallsIn(modCalls, fn, h)
\* the files of the mods directory, those whose load succeeds, and those that
\* the system loader accepts
FilesPresent == {p \in ModPaths : disk[p].exists}
FilesLoadable == {p \in FilesPresent : disk[p].loads}
FilesLoaded == {p \in FilesLoadable : disk[p].start \notin Throws}

\* C15: a LoadMods that returns has handed every file of the directory to the
\* system loader once; it counts as failed the files that failed to load and
\* as loaded the others; and every file the system loader accepts has one
\* record in the registry and its Start hook, when it has one, was invoked
\* exactly once, whatever the order of the files.
C15_EveryFileAttempted ==
    (modLast.op = "LoadMods" /\ ~modLast.escaped)
        => /\ \A p \in FilesPresent : Len(ModCallsTo("LoadLibraryA", p)) = 1
           /\ \A p \in FilesLoadable :
                 /\ Cardinality({k \in 1..Len(mods) : mods[k].hModule = LibHandle(p)}) = 1
                 /\ Len(ModCallsTo("Start", LibHandle(p))) = IF disk[p].start # "absent" THEN 1 ELSE 0
           /\ Len(mods) = Cardinality(FilesLoadable)
           /\ modLast.loadedCount = Cardinality(FilesLoaded)
           /\ modLast.failedCount = Cardinality(FilesPresent \ FilesLoaded)
\* the directory iterator yielded a file that is no library before a module
\* with a Start hook: one failure, one record, Start invoked
C15_Witness ==
    /\ modLast.op = "LoadMods" /\ modLast.failedCount = 1 /\ modLast.loadedCount = 1
    /\ Len(modCalls) = 4 /\ modCalls[1].fn = "LoadLibraryA" /\ ~disk[modCalls[1].mod].loads
    /\ modCalls[4].fn = "Start"
    /\ Len(mods) = 1

C17_ReloadKeepsName ==
    [][(/\ modLast'.op = "ReloadMod" /\ ValidIndex(mods, modLast'.index)
        /\ ~modLast'.escaped /\ modLast'.ret = TRUE)
          => \E k \in 1..Len(mods') :
                /\ LibPath[mods'[k].hModule] = LibPath[mods[modLast'.index + 1].hModule]
                /\ mods'[k].info.name = mods[modLast'.index + 1].info.name
                /\ Len(ModCallsIn(modCalls', "LoadLibraryA", LibPath[mods[modLast'.index + 1].hModule])) = 1]_vars
\* the first of two records with different names was reloaded
C17_Witness ==
    /\ modLast.op = "ReloadMod" /\ modLast.index = 0 /\ ~modLast.escaped /\ modLast.ret = TRUE
    /\ Len(mods) = 2 /\ mods[2].info.name # "" /\ mods[1].info.name # mods[2].info.name
    /\ \E k \in 1..Len(modCalls) : modCalls[k].fn = "GetModInfo" /\ modCalls[k].mod = mods[2].hModule

\* C18: every record with enabled = true and an onEnable hook has had the
\* hook invoked since the record was loaded and since its flag last became
\* false.
C18_EnabledImpliesHookInvoked ==
    \A k \in 1..Len(mods) :
        (mods[k].enabled /\ mods[k].onEnable # "absent") => mods[k].enableInvoked
\* a click on the checkbox of a disabled record with an onEnable hook
C18_Witness ==
    /\ modLast.op = "Checkbox" /\ modLast.wasEnabled = FALSE
    /\ mods[modLast.index + 1].enabled /\ mods[modLast.index + 1].onEnable = "ok"
    /\ modCalls = << MEv("onEnable", mods[modLast.index + 1].hModule) >>

\* the Render calls RenderAll is to make: one per record that is enabled and
\* has a render hook, in load order
RECURSIVE RendersDue(_, _)
RendersDue(ms, k) ==
    IF k > Len(ms) THEN << >>
    ELSE (IF ms[k].enabled /\ ms[k].render # "absent" THEN << MEv("Render", ms[k].hModule) >> ELSE << >>)
         \o RendersDue(ms, k + 1)
\* C19: RenderAll invokes Render on the records that are enabled and have a
\* render hook, in load order, on every one of them also when the render
\* hook of an earlier one throws an exception.
C19_RenderAllIsolates ==
    modLast.op = "RenderAll" => modCalls = RendersDue(mods, 1)

\* C20: UnloadAllMods invokes onDisable for every enabled record before it
\* releases the handle of any record, releases the handle of every record,
\* then clears the registry, so that GetModCount() is 0 afterwards.
C20_UnloadInThreePhases ==
    [][modLast'.op = "UnloadAllMods"
          => /\ \A j, k \in 1..Len(modCalls') :
                    (modCalls'[j].fn = "onDisable" /\ modCalls'[k].fn = "FreeLibrary") => j < k
             /\ \A k \in 1..Len(mods) :
                    /\ (mods[k].enabled /\ mods[k].onDisable # "absent")
                           => Len(ModCallsIn(modCalls', "onDisable", mods[k].hModule)) = 1
                    /\ Len(ModCallsIn(modCalls', "FreeLibrary", mods[k].hModule)) = 1
             /\ Len(mods') = 0]_vars

\* C21: an operation called with an index below 0 or not below GetModCount()
\* (EnableMod, DisableMod, Render, ReloadMod, GetModInfo, GetModName,
\* GetModEnabled, toString) invokes no hook of any module, leaves the records
\* and their sequence as they were, lets no exception out, and returns its
\* empty, false or error result (nothing, for the operations returning void).
IndexedOps == {"EnableMod", "DisableMod", "Render", "ReloadMod",
               "GetModInfo", "GetModName", "GetModEnabled", "toString"}
C21_InvalidResult(op, ret) ==
    CASE op \in {"EnableMod", "DisableMod", "Render"} -> ret = "-"
      [] op \in {"ReloadMod", "GetModEnabled"} -> ret = FALSE
      [] op = "GetModInfo" -> ret = [name |-> ""]
      [] op = "GetModName" -> ret = "<invalid mod>"
      [] op = "toString" -> ret = "Error: Invalid mod index"
C21_InvalidIndexIsNoOp ==
    [][(modLast'.op \in IndexedOps /\ ~ValidIndex(mods, modLast'.index))
       => /\ mods' = mods
          /\ modCalls' = << >>
          /\ ~modLast'.escaped
          /\ C21_InvalidResult(modLast'.op, modLast'.ret)]_vars
\* Render was called with the index one past the last record, which is
\* enabled and has a render hook
C21_Witness ==
    /\ modLast.op = "Render"
    /\ Len(mods) > 0
    /\ modLast.index = Len(mods)
    /\ mods[Len(mods)].enabled
    /\ mods[Len(mods)].render = "ok"
    /\ modCalls = << >>

\* the threads that are in the middle of a read or write
Accessing == {t \in Threads : threads[t].in}
\* two accesses to the same map or entry, one of them a write
Conflict(t, u) ==
    /\ t # u
    /\ StepOf(t).obj = StepOf(u).obj
    /\ "write" \in {StepOf(t).k, StepOf(u).k}
\* C22: with several host threads in the entry points, every read and write
\* of a registry map or of an entry happens while the thread holds the
\* global lock, and no two threads are in the same map or entry at once with
\* one of them writing.
C22_MapAccessUnderLock ==
    /\ \A t \in Accessing : global_lock = t
    /\ \A t, u \in Accessing : ~Conflict(t, u)

\* C23: in every state, the returns of a present on an error of an
\* underlying call included, the fence of each created frame slot is
\* signaled or belongs to a submission in flight: no slot holds a fence that
\* was reset and that no submission will signal.
C23_FencesSignaledOrInFlight ==
    proc = "running" =>
        \A slot \in Slots :
            g_Frames[slot].Fence # NULL => g_Frames[slot].fenceState \in {"signaled", "inflight"}

\* C24: a present that reaches the wait for a slot's fence returns: the
\* process is never left waiting for a fence that no submission signals,
\* whatever presents (failed or not) and swapchain creations came before.
C24_FenceWaitTerminates == proc # "hung"

\* the render passes recorded in the calls cs of a present, and the calls of
\* the render hook of the module with handle h among them
RenderPasses(cs) == {k \in 1..Len(cs) : cs[k].fn = "vkCmdEndRenderPass"}
RenderHookCalls(cs, h) ==
    {k \in 1..Len(cs) : cs[k].impl = "module" /\ cs[k].fn = "Render" /\ cs[k].obj = h}
\* a step that is a present that returned
PresentStep == last.op = "idle" /\ last'.op = "QueuePresentKHR" /\ proc' = "running"
\* C25: an overlay present renders every enabled module that has a render
\* hook once for each surface it records a render pass for, whether the menu
\* is shown or hidden.
C25_RenderAllPerSurface ==
    [][PresentStep =>
        \A k \in 1..Len(mods) :
            (mods[k].enabled /\ mods[k].render # "absent") =>
                Cardinality(RenderHookCalls(calls', mods[k].hModule))
                    = Cardinality(RenderPasses(calls'))]_vars

\* the submissions of a recorded command buffer among the calls of the present
CommandSubmits ==
    {k \in 1..Len(calls) : calls[k].fn = "vkQueueSubmit" /\ calls[k].arg.commandBuffer # NULL}
\* C26: for every surface whose command buffer an overlay present submitted,
\* the present itself then calls the next layer's present for that one
\* surface, waiting on the semaphore the submission signals, and stores the
\* result at the surface's place in the host's results array when there is
\* one; on either submission path.
C26_PresentsEachProcessedSurface ==
    (proc = "running" /\ last.op = "QueuePresentKHR" /\ g_Hwnd # NULL
       /\ last.fault.step \notin {"vkQueueSubmit", "vkQueueSubmit.signal"}) =>
        \A k \in CommandSubmits :
            \E j \in (k + 1)..Len(calls) :
                /\ calls[j].fn = "vkQueuePresentKHR"
                /\ calls[j].arg.surface = calls[k].arg.surface
                /\ calls[j].arg.swapchainCount = 1
                /\ calls[j].arg.waitCount = 1
                /\ calls[j].arg.wait = calls[k].arg.signal
                /\ last.info.hasResults =>
                       last.results[calls[k].arg.surface] = calls[j].arg.result

\* C27: the render pass, once created, is the one every later render-target
\* creation uses: no step destroys or replaces it, a swapchain creation
\* included.
C27_RenderPassKept ==
    [][g_RenderPass # NULL => g_RenderPass' = g_RenderPass]_vars

\* the render-target creations that ran to their end, among the calls cs
CompleteCreations(cs) ==
    {k \in 1..Len(cs) : cs[k].fn = "CreateRenderTarget" /\ cs[k].arg.failAt = NeverFails}
\* C28: the descriptor pool is created by a present whose render-target
\* creation ran to its end, and once it exists no present and no swapchain
\* creation destroys or replaces it.
C28_DescriptorPoolOnce ==
    [][/\ g_DescriptorPool # NULL => g_DescriptorPool' = g_DescriptorPool
       /\ (g_DescriptorPool = NULL /\ g_DescriptorPool' # NULL) =>
              /\ last'.op = "QueuePresentKHR"
              /\ \E k \in CompleteCreations(calls') : calls'[k].arg.descriptorPool = NULL]_vars
\* a present created the render targets anew, after a swapchain creation,
\* with the descriptor pool of an earlier creation still there
C28_Witness ==
    /\ last.op = "QueuePresentKHR"
    /\ proc = "running"
    /\ g_DescriptorPool # NULL
    /\ \E k \in CompleteCreations(calls) : calls[k].arg.descriptorPool # NULL

\* the pipeline holds no render targets: every frame slot and semaphore slot
\* of overlay globals with frames fs and semaphores ss is null
Uninitialized(fs, ss) ==
    /\ fs = [i \in Slots |-> NullFrame]
    /\ ss = [i \in Slots |-> NullFrameSemaphores]
\* the calls of a present that wait on, record into or submit a frame slot
SlotUses == {"vkWaitForFences", "vkResetFences", "vkResetCommandBuffer", "vkBeginCommandBuffer",
             "vkCmdBeginRenderPass", "vkEndCommandBuffer", "vkQueueSubmit"}
\* C29: once a present has bound a device, every CreateSwapchainKHR leaves
\* all 8 frame slots and semaphore slots null, and a present that finds the
\* pipeline so creates the render targets before it waits on, records into
\* or submits any slot.
C29_RecreationResetsPipeline ==
    [][/\ (last.op = "idle" /\ last'.op = "CreateSwapchainKHR" /\ g_Device # NULL)
          => Uninitialized(g_Frames', g_FrameSemaphores')
       /\ (last.op = "idle" /\ last'.op = "QueuePresentKHR" /\ g_Hwnd # NULL
             /\ Uninitialized(g_Frames, g_FrameSemaphores))
          => \A k \in 1..Len(calls') :
                 calls'[k].fn \in SlotUses =>
                     \E j \in 1..(k - 1) : calls'[j].fn = "CreateRenderTarget"]_vars
\* a present after a swapchain creation that followed an earlier present:
\* it created the render targets anew and submitted a slot
C29_Witness ==
    /\ last.op = "QueuePresentKHR"
    /\ Len(calls) > 1
    /\ calls[1].fn = "CreateRenderTarget"
    /\ calls[1].arg.descriptorPool # NULL
    /\ \E k \in 1..Len(calls) : calls[k].fn = "vkQueueSubmit"

\* C30: when DestroyDevice(d) returns, the registry holds nothing for d: no
\* dispatch table, no DeviceContext, and no QueueContext whose device is d.
C30_DestroyDeviceRemovesAll ==
    [][(last.op = "idle" /\ last'.op = "DestroyDevice") =>
          LET key == GetKey(last'.handle)
          IN /\ key \notin DOMAIN device_dispatch'
             /\ key \notin DOMAIN g_device_dispatch'
             /\ \A q \in DOMAIN g_queue_data' : g_queue_data'[q].device # key]_vars

(***************************************************************************)
(* Claims C31 to C40.                                                      *)
(***************************************************************************)
\* C31: when the host destroys an instance or a device through this layer's
\* entry point, the next layer's destroy function is called for that object.
C31_DestroyForwarded ==
    last.op \in {"DestroyInstance", "DestroyDevice"} =>
        \E k \in 1..Len(calls) : calls[k].fn = "vk" \o last.op /\ calls[k].obj = last.handle

\* the loader callback calls among cs
LoaderDataCalls(cs) == SelectSeq(cs, LAMBDA c : c.fn = "pfnSetDeviceLoaderData")

\* C32: when CreateDevice returns, and so when the device's table is in
\* device_dispatch, the loader's queue-binding callback has been called exactly
\* once for every queue enumerated from the create info, in their order.
C32_QueuesBoundBeforePublish ==
    (last.op = "CreateDevice" /\ last.link /\ last.ret # NO_RETURN) =>
        LET qs == EnumerateQueues(last.handle, last.qci, 1, 0)
            cb == LoaderDataCalls(calls)
        IN /\ Len(cb) = Len(qs)
           /\ \A k \in 1..Len(qs) : cb[k].obj = last.handle /\ cb[k].arg = qs[k]
           /\ GetKey(last.handle) \in DOMAIN device_dispatch
C32_Witness ==
    /\ last.op = "CreateDevice" /\ last.link /\ last.ret # NO_RETURN
    /\ Len(EnumerateQueues(last.handle, last.qci, 1, 0)) >= 2
    /\ Len(LoaderDataCalls(calls)) >= 2

C34_ReloadMovesToEnd ==
    [][(/\ modLast'.op = "ReloadMod" /\ ValidIndex(mods, modLast'.index)
        /\ ~modLast'.escaped /\ modLast'.ret = TRUE)
          => LET i == modLast'.index + 1
                 n == Len(mods)
             IN /\ Len(mods') = n
                /\ mods'[n].hModule = LibHandle(LibPath[mods[i].hModule])
                /\ \A k \in 1..(n - 1) : mods'[k] = mods[IF k < i THEN k ELSE k + 1]]_vars
\* the first of two different records was reloaded and is now the second; the
\* record that was second, enabled, is now the first
C34_Witness ==
    /\ modLast.op = "ReloadMod" /\ modLast.index = 0 /\ ~modLast.escaped /\ modLast.ret = TRUE
    /\ Len(mods) = 2 /\ mods[1].hModule # mods[2].hModule
    /\ mods[1].enabled
    /\ \E k \in 1..Len(modCalls) : modCalls[k].fn = "FreeLibrary" /\ modCalls[k].mod = mods[2].hModule

\* C35: the registry holds a record only for a module whose load was reported
\* successful: after a LoadMods that went through the files of the directory,
\* the registry has as many records as LoadMods counted as loaded.
C35_RecordsAreLoadedModules ==
    (/\ modLast.op = "LoadMods" /\ ~modLast.escaped
     /\ modLast.loadedCount + modLast.failedCount > 0)
        => Len(mods) = modLast.loadedCount

\* C40: a ReloadMod(i) with a valid i that returns false after the module's
\* path was had and the module unloaded leaves the registry one record
\* shorter, without a record of that module, and the other records as they
\* were; one that could not get the path leaves the registry as it was.
C40_FailedReloadDropsRecord ==
    [][(/\ modLast'.op = "ReloadMod" /\ ValidIndex(mods, modLast'.index)
        /\ ~modLast'.escaped /\ modLast'.ret = FALSE)
          => LET i == modLast'.index + 1
                 h == mods[i].hModule
                 unloaded == \E k \in 1..Len(modCalls') :
                                modCalls'[k].fn = "FreeLibrary" /\ modCalls'[k].mod = h
             IN IF unloaded
                THEN /\ Len(mods') = Len(mods) - 1
                     /\ \A k \in 1..Len(mods') : mods'[k].hModule # LibHandle(LibPath[h])
                     /\ \A k \in 1..Len(mods') : mods'[k] = mods[IF k < i THEN k ELSE k + 1]
                ELSE mods' = mods]_vars

\* C36: a thread that holds the global lock is reading or writing a registry
\* map, or about to release the lock: no thread is at a call into the next
\* layer while it holds the lock.
C36_NoNextCallUnderLock ==
    \A t \in Threads :
        global_lock = t =>
            /\ ~AtStep(t, "call")
            /\ AtStep(t, "read") \/ AtStep(t, "write") \/ AtStep(t, "unlock")

\* C37: a CreateInstance or CreateDevice whose call of the next layer's create
\* fails leaves the four registry maps as they were and makes no other call
\* than that create: it queries no entry point through the handle.
C37_FailedCreateLeavesRegistry ==
    [][(/\ last'.op \in {"CreateInstance", "CreateDevice"}
        /\ last'.link /\ last'.nextRet # VK_SUCCESS)
          => /\ UNCHANGED registryVars
             /\ Len(calls') = 1
             /\ last'.ret = last'.nextRet]_vars

\* C38: no call of an overlay present waits on or resets a fence, resets,
\* begins or ends a command buffer, or begins a render pass on a framebuffer,
\* that was not created: the handle it passes is never null.
C38_NoUseOfUncreatedSlot ==
    \A k \in 1..Len(calls) :
        /\ calls[k].fn \in {"vkWaitForFences", "vkResetFences", "vkResetCommandBuffer",
                            "vkBeginCommandBuffer", "vkEndCommandBuffer"}
              => calls[k].arg # NULL
        /\ calls[k].fn = "vkCmdBeginRenderPass" => calls[k].arg.framebuffer # NULL

\* C39: render-target creation never stores a new handle in a frame slot or
\* semaphore slot over a live one that was not destroyed first, after a
\* creation that failed part-way and in a present of several surfaces too.
C39_NoHandleOverwritten == ~leaked

====
